---------------------------- MODULE Spec2Model ----------------------------
(***************************************************************************)
(* A model of qoqo's circuit container (qoqo/circuit/circuit.py), of its   *)
(* gate operations, of the basis-rotation measurement (qoqo/measurements/  *)
(* basis_rotation_measurement.py) and of DoUnitary (qoqo/do_unitary/       *)
(* do_unitary.py).                                                         *)
(*                                                                         *)
(* Python lists are sequences; a Python index k is the sequence index k+1. *)
(* Strings are TLC strings, so formatting and suffix tests are computed.   *)
(***************************************************************************)
EXTENDS Integers, Sequences, FiniteSets, TLC

(***************************************************************************)
(* Bounds of the model.                                                    *)
(***************************************************************************)
MaxLen == 3
MaxAppends == 4

\* the longest circuit an operation or a sequence is inserted into
MaxInsertLen == 5

VARIABLES
    definitions,    \* Circuit._definitions
    operations,     \* Circuit._operations
    appended,       \* history: the operations appended with += so far
    last            \* history: the last call on the circuit and what it returned

cvars == <<definitions, operations, appended, last>>

\* the number of invocations of one measurement object
MaxCalls == 2

VARIABLES
    circuit_list,           \* MeasurementBaseClass._circuit_list
    constant_circuit,       \* MeasurementBaseClass._constant_circuit
    resume_list,            \* MeasurementBaseClass._resume_list
    resume_info,            \* MeasurementBaseClass._resume_info
    backend,                \* MeasurementBaseClass._backend
    device,                 \* BasisRotationMeasurement._device
    measurement_input,      \* BasisRotationMeasurement.measurement_input
    pc,                     \* where the invocation of the measurement stands
    co,                     \* the loop index of the dispatch loop
    output_register_dict,   \* the registers gathered by the dispatch loop
    return_None,            \* the flag of the dispatch loop
    result,                 \* what the invocation handed to its caller
    pauli,                  \* the intermediate values of the reconstruction
    dispatched,             \* history: the dispatches of this invocation
    none_at,                \* history: the first dispatch that returned None
    calls                   \* history: the number of invocations

mvars ==
    <<circuit_list, constant_circuit, resume_list, resume_info, backend, device,
      measurement_input, pc, co, output_register_dict, return_None, result,
      pauli, dispatched, none_at, calls>>

\* the number of calls made on one gate
MaxGateCalls == 3

VARIABLES
    gate,           \* the gate the calls are made on
    operand,        \* the second operand of the products
    gate_last,      \* history: the last call on the gate and what it returned
    gate_calls      \* history: the number of calls on the gate

gvars == <<gate, operand, gate_last, gate_calls>>

\* the number of calls made on a circuit of objects and on its deep copy
MaxHeapCalls == 2

VARIABLES
    heap,           \* the objects: operations and the dictionaries of the gates
    original,       \* a circuit whose operations are references into the heap
    duplicate,      \* its deep copy, None before the copy is made
    heap_last,      \* history: the last call and the circuits before it
    heap_calls      \* history: the number of calls

hvars == <<heap, original, duplicate, heap_last, heap_calls>>

\* the number of calls made on circuits that were concatenated
MaxOwnCalls == 2

VARIABLES
    circuit_a,      \* a circuit of references into the heap, the left operand
    circuit_b,      \* a second circuit, the right operand
    circuit_r,      \* the result of circuit_a + circuit_b, None before the sum
    own_last,       \* history: the last call and the circuits before it
    own_calls       \* history: the number of calls

ovars == <<circuit_a, circuit_b, circuit_r, own_last, own_calls>>

\* the number of calls of one DoUnitary object
MaxDoCalls == 2

VARIABLES
    free_parameters,                \* DoUnitary._free_parameters
    resume_file_name,               \* DoUnitary._resume_file_name
    resume_call_parameters,         \* DoUnitary._resume_call_parameters
    call_parameters,                \* DoUnitary.call_parameters
    parameter_substitution_dict,    \* the dictionary of the call in progress
    do_pc,                          \* where the call of the DoUnitary stands
    do_result,                      \* what the call handed to its caller
    resume_file,                    \* the file of the name resume_file_name
    do_last,                        \* history: the last call and the measurement before it
    do_calls                        \* history: the number of calls

dvars ==
    <<free_parameters, resume_file_name, resume_call_parameters, call_parameters,
      parameter_substitution_dict, do_pc, do_result, resume_file, do_last, do_calls>>

(***************************************************************************)
(* Operations (value types).                                               *)
(***************************************************************************)
Definition(name, vartype, length, is_input, is_output) ==
    [tag |-> "Definition", name |-> name, vartype |-> vartype, length |-> length,
     is_input |-> is_input, is_output |-> is_output]

Hadamard(qubit) == [tag |-> "Hadamard", qubit |-> qubit]

MeasureQubit(qubit, readout, readout_index) ==
    [tag |-> "MeasureQubit", qubit |-> qubit, readout |-> readout,
     readout_index |-> readout_index]

None == [tag |-> "None"]

IsDefinition(op) == op.tag = "Definition"

\* Definition.__eq__: name, length and vartype are compared
DefinitionEq(a, b) ==
    /\ IsDefinition(b)
    /\ a.name = b.name
    /\ a.length = b.length
    /\ a.vartype = b.vartype

\* Python's == on two operations
OperationEq(a, b) == IF IsDefinition(a) THEN DefinitionEq(a, b) ELSE a = b

\* Python's `x in list`
In(x, list) == \E i \in 1..Len(list) : OperationEq(list[i], x)

Definitions ==
    { Definition("ro", "bit", 1, FALSE, FALSE),
      Definition("test", "float", 3, FALSE, FALSE),
      Definition("ro", "float", 1, FALSE, FALSE),
      Definition("ro", "bit", 1, TRUE, FALSE) }

Gates == { Hadamard(0), MeasureQubit(0, "ro", 0) }

Operations == Definitions \cup Gates

(***************************************************************************)
(* Python list primitives.                                                 *)
(***************************************************************************)
Min(a, b) == IF a < b THEN a ELSE b
Max(a, b) == IF a < b THEN b ELSE a

\* list[key] is defined (no IndexError)
IndexOk(list, key) == -Len(list) <= key /\ key < Len(list)

\* the sequence index of list[key]
Pos(list, key) == IF key < 0 THEN key + Len(list) + 1 ELSE key + 1

ListGet(list, key) == list[Pos(list, key)]

ListDel(list, key) ==
    SubSeq(list, 1, Pos(list, key) - 1) \o SubSeq(list, Pos(list, key) + 1, Len(list))

ListSet(list, key, val) == [list EXCEPT ![Pos(list, key)] = val]

\* list.insert(index, x): the index is clamped to the list
ListInsert(list, index, x) ==
    LET n == Len(list)
        i == IF index < 0 THEN Max(index + n, 0) ELSE Min(index, n)
    IN  SubSeq(list, 1, i) \o <<x>> \o SubSeq(list, i + 1, n)

(***************************************************************************)
(* Circuit: a record of the two lists.                                     *)
(***************************************************************************)
Circuit == [definitions |-> <<>>, operations |-> <<>>]

self == [definitions |-> definitions, operations |-> operations]

__len__(c) == Len(c.definitions) + Len(c.operations)

__iter__(c) == c.definitions \o c.operations

\* __getitem__ without the offset of the operations list
getitem_no_offset(c, key) ==
    IF key < Len(c.definitions)
    THEN IF IndexOk(c.definitions, key)
         THEN [raised |-> FALSE, value |-> ListGet(c.definitions, key)]
         ELSE [raised |-> TRUE, value |-> None]
    ELSE IF IndexOk(c.operations, key)
         THEN [raised |-> FALSE, value |-> ListGet(c.operations, key)]
         ELSE [raised |-> TRUE, value |-> None]

\* an integer key: [raised, value]
__getitem__(c, key) ==
    IF key < Len(c.definitions)
    THEN IF IndexOk(c.definitions, key)
         THEN [raised |-> FALSE, value |-> ListGet(c.definitions, key)]
         ELSE [raised |-> TRUE, value |-> None]
    ELSE LET return_key == key - Len(c.definitions)
         IN  IF IndexOk(c.operations, return_key)
             THEN [raised |-> FALSE, value |-> ListGet(c.operations, return_key)]
             ELSE [raised |-> TRUE, value |-> None]

\* _append_operation without the isinstance(operation, Definition) branch
append_unrouted(c, operation) == [c EXCEPT !.operations = Append(@, operation)]

\* _append_operation without the `not in self._definitions` test
append_no_dedup(c, operation) ==
    IF IsDefinition(operation)
    THEN [c EXCEPT !.definitions = Append(@, operation)]
    ELSE [c EXCEPT !.operations = Append(@, operation)]

_append_operation(c, operation) ==
    IF IsDefinition(operation)
    THEN IF ~In(operation, c.definitions)
         THEN [c EXCEPT !.definitions = Append(@, operation)]
         ELSE c
    ELSE [c EXCEPT !.operations = Append(@, operation)]

_insert_operation(c, index, operation) ==
    IF IsDefinition(operation)
    THEN IF ~In(operation, c.definitions)
         THEN [c EXCEPT !.definitions = Append(@, operation)]
         ELSE c
    ELSE [c EXCEPT !.operations = ListInsert(@, index, operation)]

\* insert without the subtraction of len(self._definitions)
insert_no_offset(c, index, other) == _insert_operation(c, index, other)

insert(c, index, other) == _insert_operation(c, index - Len(c.definitions), other)

RECURSIVE AppendAll(_, _)
\* for op in list: c._append_operation(op)
AppendAll(c, list) ==
    IF list = <<>> THEN c
    ELSE AppendAll(_append_operation(c, Head(list)), Tail(list))

\* self += other, other a Circuit
__iadd__(c, other) ==
    LET withDefinitions == AppendAll(c, other.definitions)
    IN  [withDefinitions EXCEPT !.operations = @ \o other.operations]

\* self + other, other a Circuit
__add__(c, other) ==
    LET new_circuit == AppendAll(Circuit, __iter__(c))
        withDefinitions == AppendAll(new_circuit, other.definitions)
    IN  [withDefinitions EXCEPT !.operations = @ \o other.operations]

\* del c[key], key an integer: [raised, circuit]
DelAt(c, key) ==
    IF key < Len(c.definitions)
    THEN IF IndexOk(c.definitions, key)
         THEN [raised |-> FALSE,
               circuit |-> [c EXCEPT !.definitions = ListDel(@, key)]]
         ELSE [raised |-> TRUE, circuit |-> c]
    ELSE LET del_key == key - Len(c.definitions)
         IN  IF IndexOk(c.operations, del_key)
             THEN [raised |-> FALSE,
                   circuit |-> [c EXCEPT !.operations = ListDel(@, del_key)]]
             ELSE [raised |-> TRUE, circuit |-> c]

RECURSIVE DelRange(_, _, _)
\* for key in range(key, stop, 1): del at key; an IndexError ends the loop
DelRange(c, key, stop) ==
    IF key >= stop THEN [raised |-> FALSE, circuit |-> c]
    ELSE LET one == DelAt(c, key)
         IN  IF one.raised THEN one ELSE DelRange(one.circuit, key + 1, stop)

\* c[key] = val, key an integer: [raised, circuit]
__setitem__(c, key, val) ==
    IF (IsDefinition(val) \/ val = None) /\ key < Len(c.definitions)
    THEN IF IndexOk(c.definitions, key)
         THEN [raised |-> FALSE,
               circuit |-> [c EXCEPT !.definitions = ListSet(@, key, val)]]
         ELSE [raised |-> TRUE, circuit |-> c]
    ELSE IF key < Len(c.definitions)
    THEN [raised |-> TRUE, circuit |-> c]
    ELSE LET set_key == key - Len(c.definitions)
         IN  IF IndexOk(c.operations, set_key)
             THEN [raised |-> FALSE,
                   circuit |-> [c EXCEPT !.operations = ListSet(@, set_key, val)]]
             ELSE [raised |-> TRUE, circuit |-> c]

(***************************************************************************)
(* Rendering to the hqs_lang dialect.                                      *)
(***************************************************************************)
_quil_typedict(vartype) ==
    CASE vartype = "float" -> "REAL"
      [] vartype = "bit" -> "BIT"
      [] vartype = "int" -> "INT"
      [] vartype = "complex" -> "COMPLEX"

PyBool(b) == IF b THEN "True" ELSE "False"

Definition_to_hqs_lang(d) ==
    IF d.is_input \/ d.is_output
    THEN "Definition(" \o PyBool(d.is_input) \o "," \o PyBool(d.is_output) \o ") "
         \o d.name \o " " \o _quil_typedict(d.vartype) \o "[" \o ToString(d.length) \o "]"
    ELSE "Definition " \o d.name \o " " \o _quil_typedict(d.vartype)
         \o "[" \o ToString(d.length) \o "]"

GateOperation_to_hqs_lang(g) == g.tag \o " " \o ToString(g.qubit)

MeasureQubit_to_hqs_lang(m) ==
    "MeasureQubit " \o ToString(m.qubit) \o " " \o m.readout
    \o "[" \o ToString(m.readout_index) \o "]"

Operation_to_hqs_lang(op) ==
    CASE op.tag = "Definition" -> Definition_to_hqs_lang(op)
      [] op.tag = "MeasureQubit" -> MeasureQubit_to_hqs_lang(op)
      [] OTHER -> GateOperation_to_hqs_lang(op)

to_hqs_lang(c) ==
    [i \in 1..Len(c.definitions) |-> Operation_to_hqs_lang(c.definitions[i])]
    \o [i \in 1..Len(c.operations) |-> Operation_to_hqs_lang(c.operations[i])]

(***************************************************************************)
(* The calls on the circuit.                                               *)
(***************************************************************************)
Call(name, key, stop, val, raised, ret) ==
    [call |-> name, key |-> key, stop |-> stop, val |-> val,
     pre |-> self, raised |-> raised, ret |-> ret]

NoCall ==
    [call |-> "none", key |-> 0, stop |-> 0, val |-> None,
     pre |-> Circuit, raised |-> FALSE, ret |-> None]

Store(c) ==
    /\ definitions' = c.definitions
    /\ operations' = c.operations

RECURSIVE FromList(_)
\* a circuit built by appending the operations of a list to an empty circuit
FromList(list) ==
    IF list = <<>> THEN Circuit
    ELSE _append_operation(FromList(SubSeq(list, 1, Len(list) - 1)), list[Len(list)])

\* the circuits used as the other operand of + and +=
OtherCircuits ==
    { FromList(list) : list \in
        { <<>>,
          <<Definition("ro", "bit", 1, FALSE, FALSE), Hadamard(0)>>,
          <<Definition("ro", "float", 1, FALSE, FALSE), MeasureQubit(0, "ro", 0)>>,
          <<Definition("ro", "bit", 1, TRUE, FALSE),
            Definition("test", "float", 3, FALSE, FALSE)>> } }

\* circuit += operation
IAdd(operation) ==
    /\ Store(_append_operation(self, operation))
    /\ last' = Call("iadd", 0, 0, operation, FALSE, None)
    /\ UNCHANGED <<mvars, gvars, hvars, ovars, dvars>>

IAddOperation(operation) ==
    /\ __len__(self) < MaxLen
    /\ IAdd(operation)
    /\ UNCHANGED appended

\* circuit += operation, with the history of the appends kept
AppendLogged(operation) ==
    /\ Len(appended) < MaxAppends
    /\ IAdd(operation)
    /\ appended' = Append(appended, operation)

\* circuit += other
IAddCircuit(other) ==
    /\ __len__(self) + __len__(other) <= MaxLen
    /\ Store(__iadd__(self, other))
    /\ last' = Call("iadd_circuit", 0, 0, None, FALSE, None)
    /\ UNCHANGED appended
    /\ UNCHANGED <<mvars, gvars, hvars, ovars, dvars>>

\* circuit += circuit: other = copy(self)
IAddSelf ==
    /\ 2 * __len__(self) <= MaxLen
    /\ Store(__iadd__(self, self))
    /\ last' = Call("iadd_self", 0, 0, None, FALSE, None)
    /\ UNCHANGED appended
    /\ UNCHANGED <<mvars, gvars, hvars, ovars, dvars>>

\* circuit = circuit + other
AddCircuit(other) ==
    /\ __len__(self) + __len__(other) <= MaxLen
    /\ Store(__add__(self, other))
    /\ last' = Call("add", 0, 0, None, FALSE, None)
    /\ UNCHANGED appended
    /\ UNCHANGED <<mvars, gvars, hvars, ovars, dvars>>

\* circuit = other + circuit
RAddCircuit(other) ==
    /\ __len__(self) + __len__(other) <= MaxLen
    /\ Store(__add__(other, self))
    /\ last' = Call("radd", 0, 0, None, FALSE, None)
    /\ UNCHANGED appended
    /\ UNCHANGED <<mvars, gvars, hvars, ovars, dvars>>

\* circuit.insert(index, operation)
Insert(index, operation) ==
    /\ __len__(self) < MaxLen
    /\ Store(insert(self, index, operation))
    /\ last' = Call("insert", index, 0, operation, FALSE, None)
    /\ UNCHANGED appended
    /\ UNCHANGED <<mvars, gvars, hvars, ovars, dvars>>

RECURSIVE InsertReversed(_, _, _, _)
\* the loop of insert over reversed(list(other)), from the k-th element down
InsertReversed(c, index, other, k) ==
    IF k = 0 THEN c
    ELSE InsertReversed(_insert_operation(c, index - Len(c.definitions), other[k]),
                        index, other, k - 1)

\* circuit.insert(index, other), other a sequence of operations
insert_sequence(c, index, other) == InsertReversed(c, index, other, Len(other))

\* the sequences that are inserted
Sequences ==
    { <<Hadamard(0), MeasureQubit(0, "ro", 0)>>,
      <<Definition("ro", "bit", 1, FALSE, FALSE), Hadamard(0), MeasureQubit(0, "ro", 0)>>,
      <<Hadamard(0), Definition("test", "float", 3, FALSE, FALSE), MeasureQubit(0, "ro", 0)>>,
      <<Hadamard(0), MeasureQubit(0, "ro", 0), Definition("ro", "bit", 1, FALSE, FALSE)>> }

\* circuit.insert(index, operation) into a circuit of up to MaxInsertLen elements
InsertOperation(index, operation) ==
    /\ __len__(self) < MaxInsertLen
    /\ Store(insert(self, index, operation))
    /\ last' = Call("insert", index, 0, operation, FALSE, None)
    /\ UNCHANGED appended
    /\ UNCHANGED <<mvars, gvars, hvars, ovars, dvars>>

\* circuit.insert(index, other), other a sequence of operations
InsertSequence(index, other) ==
    /\ __len__(self) + Len(other) <= MaxInsertLen
    /\ Store(insert_sequence(self, index, other))
    /\ last' = Call("insert_sequence", index, 0, [tag |-> "list", items |-> other],
                    FALSE, None)
    /\ UNCHANGED appended
    /\ UNCHANGED <<mvars, gvars, hvars, ovars, dvars>>

\* circuit[key]
GetItem(key) ==
    /\ last' = Call("getitem", key, 0, None,
                    __getitem__(self, key).raised, __getitem__(self, key).value)
    /\ UNCHANGED <<definitions, operations, appended>>
    /\ UNCHANGED <<mvars, gvars, hvars, ovars, dvars>>

\* del circuit[key]
DelItem(key) ==
    /\ Store(DelAt(self, key).circuit)
    /\ last' = Call("delitem", key, 0, None, DelAt(self, key).raised, None)
    /\ UNCHANGED appended
    /\ UNCHANGED <<mvars, gvars, hvars, ovars, dvars>>

\* del circuit[start:stop]
DelSlice(start, stop) ==
    /\ Store(DelRange(self, start, stop).circuit)
    /\ last' = Call("delslice", start, stop, None, DelRange(self, start, stop).raised, None)
    /\ UNCHANGED appended
    /\ UNCHANGED <<mvars, gvars, hvars, ovars, dvars>>

\* circuit[key] = val
SetItem(key, val) ==
    /\ Store(__setitem__(self, key, val).circuit)
    /\ last' = Call("setitem", key, 0, val, __setitem__(self, key, val).raised, None)
    /\ UNCHANGED appended
    /\ UNCHANGED <<mvars, gvars, hvars, ovars, dvars>>

InitCircuit ==
    /\ definitions = <<>>
    /\ operations = <<>>
    /\ appended = <<>>
    /\ last = NoCall

(***************************************************************************)
(* The arithmetic of the reconstruction, kept exact: a real number is a    *)
(* fraction <<numerator, denominator>> in lowest terms with a positive     *)
(* denominator (a zero denominator stands for inf, -inf and nan), a        *)
(* complex number is a record of two fractions.                            *)
(***************************************************************************)
Abs(x) == IF x < 0 THEN -x ELSE x

Sign(x) == IF x < 0 THEN -1 ELSE IF x = 0 THEN 0 ELSE 1

RECURSIVE GCD(_, _)

GCD(a, b) == IF b = 0 THEN a ELSE GCD(b, a % b)

Frac(n, d) ==
    IF d = 0 THEN <<Sign(n), 0>>
    ELSE <<(Sign(d) * n) \div GCD(Abs(n), Abs(d)), Abs(d) \div GCD(Abs(n), Abs(d))>>

Real(n) == <<n, 1>>

FracAdd(a, b) == Frac(a[1] * b[2] + b[1] * a[2], a[2] * b[2])

FracSub(a, b) == Frac(a[1] * b[2] - b[1] * a[2], a[2] * b[2])

FracMul(a, b) == Frac(a[1] * b[1], a[2] * b[2])

FracDiv(a, b) == Frac(a[1] * b[2], a[2] * b[1])

Complex(re, im) == [re |-> re, im |-> im]

ComplexAdd(a, b) == Complex(FracAdd(a.re, b.re), FracAdd(a.im, b.im))

\* a complex number times a real one
ComplexScale(a, x) == Complex(FracMul(a.re, x), FracMul(a.im, x))

RECURSIVE Sum(_)
\* the sum of a list of integers
Sum(list) == IF list = <<>> THEN 0 ELSE list[1] + Sum(Tail(list))

\* np.mean of a list of integers
Mean(list) == Frac(Sum(list), Len(list))

\* str.endswith
endswith(s, suffix) ==
    /\ Len(s) >= Len(suffix)
    /\ SubSeq(s, Len(s) - Len(suffix) + 1, Len(s)) = suffix

\* dict.update
update(d, other) ==
    [k \in (DOMAIN d) \cup (DOMAIN other) |-> IF k \in DOMAIN other THEN other[k] ELSE d[k]]

(***************************************************************************)
(* The reconstruction of the expectation values from the registers.        *)
(* Qubits, Pauli-product indices and matrix positions count from 0 as in   *)
(* the source; a register is the list of its shots, a shot the list of     *)
(* its bits.                                                               *)
(***************************************************************************)
\* the measurement fidelity of one qubit of the device
Fidelity(error) ==
    FracDiv(FracSub(FracSub(Real(2), error.prob_0_as_1), error.prob_1_as_0), Real(2))

\* the array of the fidelities, indexed by qubit
measurement_fidelities(input, dev, be) ==
    IF dev # None
    THEN [q \in 0..(dev.nodes - 1) |->
            IF q < input.number_qubits THEN Fidelity(dev.measurement_error[q])
            ELSE Real(0)]
    ELSE [q \in 0..(be.number_qubits - 1) |-> Real(1)]

RECURSIVE Prod(_, _)
\* np.prod(measurement_fidelities[val])
Prod(fidelities, val) ==
    IF val = <<>> THEN Real(1)
    ELSE FracMul(fidelities[val[1]], Prod(fidelities, Tail(val)))

\* the correction factors of one register
measurement_correction_factor(input, mask, fidelities) ==
    [index \in 0..(input.number_pauli_products - 1) |->
        IF index \in DOMAIN mask /\ Len(mask[index]) # 0
        THEN Prod(fidelities, mask[index])
        ELSE Real(1)]

measurement_correction_factors(input, dev, be) ==
    [name \in DOMAIN input.pauli_product_qubit_masks |->
        measurement_correction_factor(input, input.pauli_product_qubit_masks[name],
                                      measurement_fidelities(input, dev, be))]

\* the test the reconstruction makes on a register name
is_flipped(register_name) == endswith(register_name, "flipped")

RECURSIVE SumBits(_, _, _)
\* np.sum(tmp_array[:, val]) of one shot, np.sum(1 - tmp_array[:, val]) when flipped
SumBits(shot, val, flipped) ==
    IF val = <<>> THEN 0
    ELSE (IF flipped THEN 1 - shot[val[1] + 1] ELSE shot[val[1] + 1])
         + SumBits(shot, Tail(val), flipped)

\* one row of single_shot_pauli_products at one index of the mask
single_shot_pauli_product(register_name, shot, val) ==
    IF Len(val) = 0 THEN 1
    ELSE IF SumBits(shot, val, is_flipped(register_name)) % 2 = 0 THEN 1 ELSE -1

\* the Pauli products of one register, averaged over the shots
pauli_product(input, register_name, register) ==
    [index \in 0..(input.number_pauli_products - 1) |->
        Mean([s \in 1..Len(register) |->
                IF index \in DOMAIN input.pauli_product_qubit_masks[register_name]
                THEN single_shot_pauli_product(register_name, register[s],
                        input.pauli_product_qubit_masks[register_name][index])
                ELSE 0])]

pauli_product_dict(input, out) ==
    [register_name \in DOMAIN input.pauli_product_qubit_masks |->
        pauli_product(input, register_name, out[register_name])]

\* the readout-error correction of the registers that are not flipped
corrected_dict(input, dev, be, dict) ==
    IF input.use_flipped_measurement
    THEN [register_name \in DOMAIN dict |->
            IF ~is_flipped(register_name)
            THEN [index \in 0..(input.number_pauli_products - 1) |->
                    FracDiv(FracDiv(FracAdd(dict[register_name][index],
                                            dict[register_name \o "_flipped"][index]),
                                    Real(2)),
                            measurement_correction_factors(input, dev, be)[register_name][index])]
            ELSE dict[register_name]]
    ELSE dict

\* summed_registers without the test on the name
summed_all(dict) == DOMAIN dict

\* the registers whose Pauli products enter the sum
summed_registers(dict) == { register_name \in DOMAIN dict : ~is_flipped(register_name) }

RECURSIVE SumVectors(_, _, _)
\* the sum of the vectors of a set of registers at one index
SumVectors(names, dict, index) ==
    IF names = {} THEN Real(0)
    ELSE LET register_name == CHOOSE n \in names : TRUE
         IN  FracAdd(dict[register_name][index],
                     SumVectors(names \ {register_name}, dict, index))

pauli_products(input, dict) ==
    [index \in 0..(input.number_pauli_products - 1) |->
        SumVectors(summed_registers(dict), dict, index)]

RECURSIVE Dot(_, _, _)
\* the product of one row of the matrix with the vector, from column j on
Dot(row, vector, j) ==
    IF j > Len(row) THEN Complex(Real(0), Real(0))
    ELSE ComplexAdd(ComplexScale(row[j], vector[j - 1]), Dot(row, vector, j + 1))

\* pp_to_exp_val_matrix @ pauli_products
matmul(matrix, vector) == [i \in 1..matrix.shape[1] |-> Dot(matrix.a[i], vector, 1)]

\* the entries of the result: zip(names, expectation_values), later entries
\* of one name replacing the earlier ones, then the global phase
tmp_dict(names, expectation_values, out) ==
    LET n == Min(Len(names), Len(expectation_values))
        key(i) == "exp_val_" \o names[i]
        position(k) == CHOOSE i \in 1..n : key(i) = k /\ \A j \in (i + 1)..n : key(j) # k
    IN  [k \in { key(i) : i \in 1..n }
               \cup (IF "global_phase" \in DOMAIN out THEN {"global_phase"} ELSE {}) |->
            IF k = "global_phase" THEN out["global_phase"][1][1]
            ELSE expectation_values[position(k)]]

\* the exception the reconstruction raises on these registers, "" when it raises none
ReconstructionError(input, dev, be, out) ==
    LET masks == input.pauli_product_qubit_masks
        npp == input.number_pauli_products
        fidelities == measurement_fidelities(input, dev, be)
    IN  CASE dev # None /\ \E q \in 0..(input.number_qubits - 1) :
                                q \notin DOMAIN dev.measurement_error
               -> "KeyError"
          [] dev # None /\ input.number_qubits > dev.nodes
               -> "IndexError"
          [] input.use_flipped_measurement
             /\ \E name \in DOMAIN masks : \E index \in DOMAIN masks[name] :
                    \/ index >= npp
                    \/ \E i \in 1..Len(masks[name][index]) :
                           masks[name][index][i] \notin DOMAIN fidelities
               -> "IndexError"
          [] \E name \in DOMAIN masks : name \notin DOMAIN out
               -> "KeyError"
          [] \E name \in DOMAIN masks : \E index \in DOMAIN masks[name] :
                    \/ index >= npp
                    \/ \E i \in 1..Len(masks[name][index]) : \E s \in 1..Len(out[name]) :
                           masks[name][index][i] >= Len(out[name][s])
               -> "IndexError"
          [] input.use_flipped_measurement
             /\ \E name \in DOMAIN masks :
                    ~is_flipped(name) /\ (name \o "_flipped") \notin DOMAIN masks
               -> "KeyError"
          [] input.pp_to_exp_val_matrix.shape[2] # npp
               -> "ValueError"
          [] "global_phase" \in DOMAIN out /\ out["global_phase"] = <<>>
               -> "IndexError"
          [] OTHER -> ""

\* the values of the reconstruction when nothing was reconstructed
NoPauli ==
    [pauli_product_dict |-> <<>>, corrected |-> <<>>,
     pauli_products |-> <<>>, expectation_values |-> <<>>]

\* the values the reconstruction computes on its way
Reconstruction(input, dev, be, out) ==
    LET dict == pauli_product_dict(input, out)
        corrected == corrected_dict(input, dev, be, dict)
        products == pauli_products(input, corrected)
    IN  [pauli_product_dict |-> dict, corrected |-> corrected,
         pauli_products |-> products,
         expectation_values |-> matmul(input.pp_to_exp_val_matrix, products)]

(***************************************************************************)
(* What an invocation hands to its caller.                                 *)
(***************************************************************************)
NoResult == [kind |-> "pending", series |-> <<>>, exception |-> ""]

Series(entries) == [kind |-> "Series", series |-> entries, exception |-> ""]

ReturnsNone == [kind |-> "None", series |-> <<>>, exception |-> ""]

Raises(exception) == [kind |-> "raised", series |-> <<>>, exception |-> exception]

\* AfterLoop with the flag of the loop ignored
after_loop_ignores_flag(input, dev, be, flag, out) ==
    IF ReconstructionError(input, dev, be, out) # ""
    THEN [result |-> Raises(ReconstructionError(input, dev, be, out)), pauli |-> NoPauli]
    ELSE [result |-> Series(tmp_dict(input.measured_exp_vals,
                                     Reconstruction(input, dev, be, out).expectation_values,
                                     out)),
          pauli |-> Reconstruction(input, dev, be, out)]

\* the part of the invocation that follows the dispatch loop
AfterLoop(input, dev, be, flag, out) ==
    IF flag THEN [result |-> ReturnsNone, pauli |-> NoPauli]
    ELSE IF ReconstructionError(input, dev, be, out) # ""
    THEN [result |-> Raises(ReconstructionError(input, dev, be, out)), pauli |-> NoPauli]
    ELSE [result |-> Series(tmp_dict(input.measured_exp_vals,
                                     Reconstruction(input, dev, be, out).expectation_values,
                                     out)),
          pauli |-> Reconstruction(input, dev, be, out)]

(***************************************************************************)
(* The measurement object and the measurements that are invoked.           *)
(***************************************************************************)
PauliX(qubit) == [tag |-> "PauliX", qubit |-> qubit]

BackendBaseClass(number_qubits) == [tag |-> "backend", number_qubits |-> number_qubits]

\* a device whose graph has the given number of nodes and measurement errors
Device(nodes, measurement_error) ==
    [tag |-> "device", nodes |-> nodes, measurement_error |-> measurement_error]

\* a list that an optional argument holds
List(items) == [tag |-> "list", items |-> items]

Matrix(rows, columns, a) == [shape |-> <<rows, columns>>, a |-> a]

BRMeasurementInput(masks, matrix, number_qubits, number_pauli_products, names, flipped) ==
    [pauli_product_qubit_masks |-> masks,
     pp_to_exp_val_matrix |-> matrix,
     number_qubits |-> number_qubits,
     number_pauli_products |-> number_pauli_products,
     measured_exp_vals |-> names,
     use_flipped_measurement |-> flipped]

BasisRotationMeasurement(be, input, list, constant, dev, resume) ==
    [backend |-> be, measurement_input |-> input, circuit_list |-> list,
     constant_circuit |-> constant, device |-> dev, resume_list |-> resume]

\* BasisRotationMeasurement() with the defaults of its arguments
DefaultMeasurement ==
    BasisRotationMeasurement(None,
        BRMeasurementInput(<<>>, Matrix(0, 0, <<>>), 0, 0, <<>>, FALSE),
        <<>>, Circuit, None, None)

\* a circuit that measures both qubits into the register of the given name
MeasureCircuit(name) ==
    FromList(<<Definition(name, "bit", 2, FALSE, TRUE),
               MeasureQubit(0, name, 0), MeasureQubit(1, name, 1)>>)

\* the same with the qubits flipped before they are measured
FlippedCircuit(name) ==
    FromList(<<Definition(name, "bit", 2, FALSE, TRUE), PauliX(0), PauliX(1),
               MeasureQubit(0, name, 0), MeasureQubit(1, name, 1)>>)

One == Complex(Real(1), Real(0))

Zero == Complex(Real(0), Real(0))

Imag == Complex(Real(0), Real(1))

Half == Complex(Frac(1, 2), Real(0))

Identity2 == Matrix(2, 2, <<<<One, Zero>>, <<Zero, One>>>>)

PairMasks(name) ==
    (name :> ((0 :> <<0>>) @@ (1 :> <<0, 1>>)))
    @@ ((name \o "_flipped") :> ((0 :> <<0>>) @@ (1 :> <<0, 1>>)))

NoisyDevice ==
    Device(2, (0 :> [prob_0_as_1 |-> Frac(1, 4), prob_1_as_0 |-> Frac(1, 4)])
              @@ (1 :> [prob_0_as_1 |-> Real(0), prob_1_as_0 |-> Real(1)]))

\* the measurements that are invoked
Measurements ==
    { DefaultMeasurement,
      \* one register, an index without qubits and one with both
      BasisRotationMeasurement(BackendBaseClass(2),
          BRMeasurementInput("ro" :> ((0 :> <<>>) @@ (1 :> <<0, 1>>)),
              Matrix(2, 2, <<<<Half, Zero>>, <<Imag, One>>>>), 2, 2, <<"a", "b">>, FALSE),
          <<MeasureCircuit("ro")>>, FromList(<<Hadamard(0)>>), None, None),
      \* two registers that fill different indices, one circuit run a second time
      BasisRotationMeasurement(BackendBaseClass(2),
          BRMeasurementInput(("ro" :> ((0 :> <<0>>) @@ (1 :> <<1>>))) @@ ("test2" :> (1 :> <<1>>)),
              Matrix(2, 2, <<<<Half, Zero>>, <<One, Imag>>>>), 2, 2, <<"a", "b">>, FALSE),
          <<MeasureCircuit("ro"), MeasureCircuit("test2"), MeasureCircuit("ro")>>,
          FromList(<<Hadamard(0)>>), None, None),
      \* a register and its flipped companion, without and with a device
      BasisRotationMeasurement(BackendBaseClass(2),
          BRMeasurementInput(PairMasks("ro"), Identity2, 2, 2, <<"a", "b">>, TRUE),
          <<MeasureCircuit("ro"), FlippedCircuit("ro_flipped")>>, Circuit, None, None),
      BasisRotationMeasurement(BackendBaseClass(2),
          BRMeasurementInput(PairMasks("ro"), Identity2, 2, 2, <<"a", "b">>, TRUE),
          <<MeasureCircuit("ro"), FlippedCircuit("ro_flipped")>>, Circuit, NoisyDevice, None),
      \* the same pair without the correction
      BasisRotationMeasurement(BackendBaseClass(2),
          BRMeasurementInput(PairMasks("ro"), Identity2, 2, 2, <<"a", "b">>, FALSE),
          <<MeasureCircuit("ro"), FlippedCircuit("ro_flipped")>>, Circuit, None, None),
      \* a pair whose plain register is called unflipped
      BasisRotationMeasurement(BackendBaseClass(2),
          BRMeasurementInput(PairMasks("unflipped"), Identity2, 2, 2, <<"a", "b">>, TRUE),
          <<MeasureCircuit("unflipped"), FlippedCircuit("unflipped_flipped")>>,
          Circuit, None, None),
      \* a register of the masks that no circuit of the list fills
      BasisRotationMeasurement(BackendBaseClass(2),
          BRMeasurementInput("ro" :> ((0 :> <<>>) @@ (1 :> <<0, 1>>)),
              Identity2, 2, 2, <<"a", "b">>, FALSE),
          <<MeasureCircuit("test2")>>, Circuit, None, None),
      \* a resume list that is shorter than the circuit list
      BasisRotationMeasurement(BackendBaseClass(2),
          BRMeasurementInput("ro" :> ((0 :> <<>>) @@ (1 :> <<0, 1>>)),
              Identity2, 2, 2, <<"a", "b">>, FALSE),
          <<MeasureCircuit("ro"), MeasureCircuit("ro")>>, Circuit, None,
          List(<<[resume |-> "first"]>>)) }

\* the contents a backend returns for a register of two qubits
RegisterContents ==
    { <<<<0, 0>>, <<0, 0>>>>,
      <<<<1, 0>>, <<0, 0>>>>,
      <<<<1, 1>>>>,
      <<<<0, 1>>, <<1, 1>>, <<1, 0>>>> }

\* the exceptions a backend raises
BackendErrors == { "RuntimeError", "TimeoutError" }

\* the registers a circuit defines
RegisterNames(c) == { c.definitions[i].name : i \in 1..Len(c.definitions) }

(***************************************************************************)
(* The invocation of a measurement: BasisRotationMeasurement.__call__.     *)
(* The backend is outside the program: a dispatch returns registers for    *)
(* the definitions of the circuit it was given, returns None, or raises.   *)
(***************************************************************************)
\* backend_circuit with the operands exchanged
backend_circuit_reversed(constant, circuit) == __add__(circuit, constant)

\* the circuit handed to the backend
backend_circuit(constant, circuit) == __add__(constant, circuit)

\* the keyword arguments of the dispatch in progress
run_kwargs == IF resume_list = None THEN <<>> ELSE resume_list.items[co + 1]

\* the resume list has no entry for the dispatch in progress
ResumeListExhausted == resume_list # None /\ co >= Len(resume_list.items)

\* the record of the dispatch in progress
Dispatch(outcome) ==
    [circuit |-> backend_circuit(constant_circuit, circuit_list[co + 1]),
     kwargs |-> run_kwargs, outcome |-> outcome]

\* what the backend left as its resume information
backend_resume_info == [call |-> calls, circuit |-> co]

\* the loop goes on with the circuit at position n, or the invocation ends
Continue(n, flag, out) ==
    IF n < Len(circuit_list)
    THEN /\ pc' = "dispatching"
         /\ co' = n
         /\ result' = NoResult
         /\ pauli' = NoPauli
    ELSE /\ pc' = IF AfterLoop(measurement_input, device, backend, flag, out).result.kind
                     = "raised" THEN "failed" ELSE "done"
         /\ co' = n
         /\ result' = AfterLoop(measurement_input, device, backend, flag, out).result
         /\ pauli' = AfterLoop(measurement_input, device, backend, flag, out).pauli

(***************************************************************************)
(* The caller of an invocation. A DoUnitary runs the measurement it was    *)
(* constructed with: its copy of the measurement is a shallow one, the     *)
(* constant circuit, the circuit list and the recorded resume information  *)
(* are the objects of the measurement itself.                              *)
(***************************************************************************)
PragmaParameterSubstitution(substitution_dict) ==
    [tag |-> "PragmaParameterSubstitution", substitution_dict |-> substitution_dict]

\* pd.Series(parameter_substitution_dict).add_prefix('unitary_parameter_')
parameter_series(dict) ==
    [k \in { "unitary_parameter_" \o name : name \in DOMAIN dict } |->
        Complex(dict[CHOOSE name \in DOMAIN dict : "unitary_parameter_" \o name = k],
                Real(0))]

\* the record of a call and of the measurement before it
CallRecord(name, parameters) ==
    [call |-> name, parameters |-> parameters,
     constant_circuit |-> constant_circuit, circuit_list |-> circuit_list,
     resume_info |-> resume_info, calls |-> calls]

NoCallRecord ==
    [call |-> "none", parameters |-> None,
     constant_circuit |-> Circuit, circuit_list |-> <<>>,
     resume_info |-> <<>>, calls |-> 0]

\* DoUnitary.__call__ from the end of the invocation on. An exception of the
\* invocation leaves the call at once; otherwise the last element of the
\* constant circuit is deleted, a None is saved with the recorded resume
\* information when a file name was given (the save fails when the file
\* exists), and a series is returned with the parameters appended
AfterInvocation(constant, res, info, dict, resume_parameters) ==
    IF res.kind = "raised"
    THEN [constant_circuit |-> constant, do_pc |-> "raised", do_result |-> res,
          resume_file |-> resume_file]
    ELSE LET deleted == DelAt(constant, __len__(constant) - 1).circuit
         IN  IF res.kind = "None"
             THEN IF resume_file_name = None
                  THEN [constant_circuit |-> deleted, do_pc |-> "returned",
                        do_result |-> ReturnsNone, resume_file |-> resume_file]
                  ELSE IF resume_file = None
                  THEN [constant_circuit |-> deleted, do_pc |-> "returned",
                        do_result |-> ReturnsNone,
                        resume_file |-> [resume_list |-> List(info),
                                         resume_call_parameters |->
                                             resume_parameters]]
                  ELSE [constant_circuit |-> deleted, do_pc |-> "raised",
                        do_result |-> Raises("FileExistsError"),
                        resume_file |-> resume_file]
             ELSE [constant_circuit |-> deleted, do_pc |-> "returned",
                   do_result |-> Series(update(res.series, parameter_series(dict))),
                   resume_file |-> resume_file]

\* what follows a step of the invocation: the rest of the DoUnitary call
\* when the invocation was made by a DoUnitary and has ended, nothing else
Unwind(position, res, info) ==
    IF do_pc = "measuring" /\ position # "dispatching"
    THEN /\ LET after == AfterInvocation(constant_circuit, res, info,
                                         parameter_substitution_dict,
                                         resume_call_parameters)
            IN  /\ constant_circuit' = after.constant_circuit
                /\ do_pc' = after.do_pc
                /\ do_result' = after.do_result
                /\ resume_file' = after.resume_file
         /\ UNCHANGED <<free_parameters, resume_file_name, resume_call_parameters,
                        call_parameters, parameter_substitution_dict, do_last, do_calls>>
    ELSE UNCHANGED <<constant_circuit, dvars>>

__call__ ==
    /\ pc # "dispatching"
    /\ calls < MaxCalls
    /\ calls' = calls + 1
    /\ dispatched' = <<>>
    /\ none_at' = 0
    /\ output_register_dict' = <<>>
    /\ return_None' = FALSE
    /\ IF backend = None
       THEN /\ pc' = "done"
            /\ co' = 0
            /\ result' = Series(<<>>)
            /\ pauli' = NoPauli
       ELSE Continue(0, FALSE, <<>>)
    /\ do_last' = CallRecord("measurement", None)
    /\ do_pc' = "idle"
    /\ UNCHANGED <<free_parameters, resume_file_name, resume_call_parameters,
                   call_parameters, parameter_substitution_dict, do_result,
                   resume_file, do_calls>>
    /\ UNCHANGED <<circuit_list, constant_circuit, resume_list, resume_info, backend,
                   device, measurement_input, cvars, gvars, hvars, ovars>>

\* what a backend may return for the dispatch in progress
ReturnedRegisters ==
    IF pc = "dispatching"
    THEN [RegisterNames(backend_circuit(constant_circuit, circuit_list[co + 1]))
             -> RegisterContents]
    ELSE {}

\* the dispatch returns registers
BackendReturns ==
    /\ pc = "dispatching"
    /\ ~ResumeListExhausted
    /\ \E tmp_output_register_dict \in ReturnedRegisters :
          /\ output_register_dict' = update(output_register_dict, tmp_output_register_dict)
          /\ Continue(co + 1, return_None,
                      update(output_register_dict, tmp_output_register_dict))
    /\ dispatched' = Append(dispatched, Dispatch("registers"))
    /\ resume_info' = Append(resume_info, backend_resume_info)
    /\ Unwind(pc', result', resume_info')
    /\ UNCHANGED <<circuit_list, resume_list, backend, device,
                   measurement_input, return_None, none_at, calls, cvars, gvars, hvars, ovars>>

\* the dispatch returns None
BackendReturnsNone ==
    /\ pc = "dispatching"
    /\ ~ResumeListExhausted
    /\ dispatched' = Append(dispatched, Dispatch("None"))
    /\ resume_info' = Append(resume_info, backend_resume_info)
    /\ return_None' = TRUE
    /\ none_at' = IF none_at = 0 THEN co + 1 ELSE none_at
    /\ Continue(co + 1, TRUE, output_register_dict)
    /\ Unwind(pc', result', resume_info')
    /\ UNCHANGED <<circuit_list, resume_list, backend, device,
                   measurement_input, output_register_dict, calls, cvars, gvars, hvars, ovars>>

\* the dispatch raises
BackendRaises(exception) ==
    /\ pc = "dispatching"
    /\ ~ResumeListExhausted
    /\ dispatched' = Append(dispatched, Dispatch(exception))
    /\ pc' = "failed"
    /\ result' = Raises(exception)
    /\ Unwind("failed", Raises(exception), resume_info)
    /\ UNCHANGED <<circuit_list, resume_list, resume_info, backend,
                   device, measurement_input, co, output_register_dict, return_None,
                   pauli, none_at, calls, cvars, gvars, hvars, ovars>>

\* the resume list has no entry for the circuit: the lookup raises before the dispatch
ResumeLookupRaises ==
    /\ pc = "dispatching"
    /\ ResumeListExhausted
    /\ pc' = "failed"
    /\ result' = Raises("IndexError")
    /\ Unwind("failed", Raises("IndexError"), resume_info)
    /\ UNCHANGED <<circuit_list, resume_list, resume_info, backend,
                   device, measurement_input, co, output_register_dict, return_None,
                   pauli, dispatched, none_at, calls, cvars, gvars, hvars, ovars>>

\* the idle invocation of a measurement object
Idle ==
    /\ pc = "idle"
    /\ co = 0
    /\ output_register_dict = <<>>
    /\ return_None = FALSE
    /\ result = NoResult
    /\ pauli = NoPauli
    /\ dispatched = <<>>
    /\ none_at = 0
    /\ calls = 0
    /\ resume_info = <<>>

Constructed(m) ==
    /\ backend = m.backend
    /\ measurement_input = m.measurement_input
    /\ circuit_list = m.circuit_list
    /\ constant_circuit = m.constant_circuit
    /\ device = m.device
    /\ resume_list = m.resume_list
    /\ Idle

InitMeasurement == Constructed(DefaultMeasurement)

InitMeasure == InitCircuit /\ (\E m \in Measurements : Constructed(m))

NextMeasure ==
    \/ __call__
    \/ BackendReturns
    \/ BackendReturnsNone
    \/ \E exception \in BackendErrors : BackendRaises(exception)
    \/ ResumeLookupRaises

(***************************************************************************)
(* Gate operations (qoqo/operations/_operations_base_classes.py and        *)
(* single_qubit_gate_operations.py).                                       *)
(*                                                                         *)
(* A CalculatorFloat is a float or a symbolic expression. Floats are kept  *)
(* exact as fractions; angles are counted in units of pi and the angles of *)
(* the model's gates are whole multiples of pi, so that the cosines and    *)
(* sines of the half angles and the phase factors are exact.               *)
(***************************************************************************)
Variable(name) == [op |-> "variable", name |-> name]

Literal(x) == [op |-> "literal", x |-> x]

\* a float: its value is the literal
Float(x) == [is_float |-> TRUE, value |-> Literal(x)]

\* a symbolic expression
Str(expression) == [is_float |-> FALSE, value |-> expression]

Unary(op, arg) == [op |-> op, arg |-> arg]

Binary(op, l, r) == [op |-> op, l |-> l, r |-> r]

\* CalculatorFloat('name')
Symbol(name) == Str(Variable(name))

\* the fraction of a float
FloatValue(a) == a.value.x

FracNeg(x) == Frac(-x[1], x[2])

\* cos(x * pi) for x a multiple of 1/2
Cos(x) ==
    CASE ((2 * x[1]) \div x[2]) % 4 = 0 -> Real(1)
      [] ((2 * x[1]) \div x[2]) % 4 = 2 -> Real(-1)
      [] ((2 * x[1]) \div x[2]) % 4 \in {1, 3} -> Real(0)

\* sin(x * pi) for x a multiple of 1/2
Sin(x) ==
    CASE ((2 * x[1]) \div x[2]) % 4 = 1 -> Real(1)
      [] ((2 * x[1]) \div x[2]) % 4 = 3 -> Real(-1)
      [] ((2 * x[1]) \div x[2]) % 4 \in {0, 2} -> Real(0)

UnaryValue(op, x) ==
    CASE op = "cos" -> Cos(x)
      [] op = "sin" -> Sin(x)
      [] op = "neg" -> FracNeg(x)

BinaryValue(op, x, y) ==
    CASE op = "+" -> FracAdd(x, y)
      [] op = "-" -> FracSub(x, y)
      [] op = "*" -> FracMul(x, y)
      [] op = "/" -> FracDiv(x, y)

UnaryOp(op, a) ==
    IF a.is_float THEN Float(UnaryValue(op, FloatValue(a))) ELSE Str(Unary(op, a.value))

BinaryOp(op, a, b) ==
    IF a.is_float /\ b.is_float
    THEN Float(BinaryValue(op, FloatValue(a), FloatValue(b)))
    ELSE Str(Binary(op, a.value, b.value))

RECURSIVE parse_string(_, _)
\* parse_string('name=value; ...; ' + expression): [raised, value]; a name
\* that has no binding raises
parse_string(substitution_dict, expression) ==
    CASE expression.op = "literal" -> [raised |-> FALSE, value |-> expression.x]
      [] expression.op = "variable" ->
            IF expression.name \in DOMAIN substitution_dict
            THEN [raised |-> FALSE, value |-> substitution_dict[expression.name]]
            ELSE [raised |-> TRUE, value |-> Real(0)]
      [] expression.op \in {"cos", "sin", "neg"} ->
            LET arg == parse_string(substitution_dict, expression.arg)
            IN  IF arg.raised THEN arg
                ELSE [raised |-> FALSE, value |-> UnaryValue(expression.op, arg.value)]
      [] OTHER ->
            LET l == parse_string(substitution_dict, expression.l)
                r == parse_string(substitution_dict, expression.r)
            IN  IF l.raised THEN l
                ELSE IF r.raised THEN r
                ELSE [raised |-> FALSE,
                      value |-> BinaryValue(expression.op, l.value, r.value)]

\* CalculatorComplex.from_pair
from_pair(re, im) == [re |-> re, im |-> im]

conj(a) == from_pair(a.re, UnaryOp("neg", a.im))

CalculatorComplexMul(a, b) ==
    from_pair(BinaryOp("-", BinaryOp("*", a.re, b.re), BinaryOp("*", a.im, b.im)),
              BinaryOp("+", BinaryOp("*", a.re, b.im), BinaryOp("*", a.im, b.re)))

CalculatorComplexAdd(a, b) ==
    from_pair(BinaryOp("+", a.re, b.re), BinaryOp("+", a.im, b.im))

CalculatorComplexSub(a, b) ==
    from_pair(BinaryOp("-", a.re, b.re), BinaryOp("-", a.im, b.im))

(***************************************************************************)
(* The gate classes of the model: the qubit roles and the parameters in    *)
(* the order of their dictionaries, their defaults, the rotation strength  *)
(* parameters and whether the class is a single-qubit gate.                *)
(***************************************************************************)
GateClass(roles, qubits, order, parameters, rotation, single) ==
    [roles |-> roles, _ordered_qubits_dict_default |-> qubits, order |-> order,
     _ordered_parameter_dict_default |-> parameters,
     _rotation_strength_parameters |-> rotation, single |-> single]

GateClasses ==
    [ SingleQubitGate |->
        GateClass(<<"qubit">>, [qubit |-> 0],
                  <<"alpha_r", "alpha_i", "beta_r", "beta_i", "global_phase">>,
                  [alpha_r |-> Float(Real(1)), alpha_i |-> Float(Real(0)),
                   beta_r |-> Float(Real(0)), beta_i |-> Float(Real(0)),
                   global_phase |-> Float(Real(0))],
                  None, TRUE),
      RotateX |->
        GateClass(<<"qubit">>, [qubit |-> 0], <<"theta">>, [theta |-> Float(Real(0))],
                  List(<<"theta">>), TRUE),
      RotateZ |->
        GateClass(<<"qubit">>, [qubit |-> 0], <<"theta">>, [theta |-> Float(Real(0))],
                  List(<<"theta">>), TRUE),
      RotateAroundSphericalAxis |->
        GateClass(<<"qubit">>, [qubit |-> 0],
                  <<"theta", "spherical_theta", "spherical_phi">>,
                  [theta |-> Float(Real(0)), spherical_theta |-> Float(Frac(1, 2)),
                   spherical_phi |-> Float(Real(0))],
                  List(<<"theta">>), TRUE),
      PauliY |-> GateClass(<<"qubit">>, [qubit |-> 0], <<>>, <<>>, None, TRUE),
      PauliZ |-> GateClass(<<"qubit">>, [qubit |-> 0], <<>>, <<>>, None, TRUE),
      CNOT |-> GateClass(<<"control", "qubit">>, [control |-> 1, qubit |-> 0], <<>>, <<>>, None, FALSE),
      ControlledPhaseShift |->
        GateClass(<<"control", "qubit">>, [control |-> 1, qubit |-> 0], <<"theta">>, [theta |-> Float(Real(0))],
                  List(<<"theta">>), FALSE) ]

\* dict.get(key, default) over the keys of the defaults
Defaulted(defaults, kwargs) ==
    [key \in DOMAIN defaults |->
        IF key \in DOMAIN kwargs THEN kwargs[key] ELSE defaults[key]]

\* set(dict.values())
Values(dict) == { dict[key] : key \in DOMAIN dict }

AnySymbolic(parameter_dict) ==
    \E key \in DOMAIN parameter_dict : ~parameter_dict[key].is_float

\* GateOperation.__init__ of the class cls with the keyword arguments kwargs
GateOperation(cls, kwargs) ==
    [tag |-> cls,
     _ordered_qubits_dict |->
        Defaulted(GateClasses[cls]._ordered_qubits_dict_default, kwargs),
     _ordered_parameter_dict |->
        Defaulted(GateClasses[cls]._ordered_parameter_dict_default, kwargs),
     _parametrized |->
        AnySymbolic(Defaulted(GateClasses[cls]._ordered_parameter_dict_default, kwargs)),
     _involved_qubits |->
        Values(Defaulted(GateClasses[cls]._ordered_qubits_dict_default, kwargs))]

is_parametrized(g) == g._parametrized

involved_qubits(g) == g._involved_qubits

HalfTheta(g) == BinaryOp("/", g._ordered_parameter_dict.theta, Float(Real(2)))

alpha_r(g) ==
    CASE g.tag = "SingleQubitGate" -> g._ordered_parameter_dict.alpha_r
      [] g.tag \in {"RotateX", "RotateZ", "RotateAroundSphericalAxis"} ->
            UnaryOp("cos", HalfTheta(g))
      [] g.tag \in {"PauliY", "PauliZ"} -> Float(Real(0))

alpha_i(g) ==
    CASE g.tag = "SingleQubitGate" -> g._ordered_parameter_dict.alpha_i
      [] g.tag = "RotateZ" -> BinaryOp("*", Float(Real(-1)), UnaryOp("sin", HalfTheta(g)))
      [] g.tag = "RotateAroundSphericalAxis" ->
            BinaryOp("*", BinaryOp("*", Float(Real(-1)), UnaryOp("sin", HalfTheta(g))),
                     UnaryOp("cos", g._ordered_parameter_dict.spherical_theta))
      [] g.tag = "PauliZ" -> Float(Real(-1))
      [] g.tag \in {"RotateX", "PauliY"} -> Float(Real(0))

beta_r(g) ==
    CASE g.tag = "SingleQubitGate" -> g._ordered_parameter_dict.beta_r
      [] g.tag = "PauliY" -> Float(Real(1))
      [] g.tag = "RotateAroundSphericalAxis" ->
            BinaryOp("*", BinaryOp("*", UnaryOp("sin", HalfTheta(g)),
                                   UnaryOp("sin", g._ordered_parameter_dict.spherical_phi)),
                     UnaryOp("sin", g._ordered_parameter_dict.spherical_theta))
      [] g.tag \in {"RotateX", "RotateZ", "PauliZ"} -> Float(Real(0))

beta_i(g) ==
    CASE g.tag = "SingleQubitGate" -> g._ordered_parameter_dict.beta_i
      [] g.tag = "RotateX" -> BinaryOp("*", Float(Real(-1)), UnaryOp("sin", HalfTheta(g)))
      [] g.tag = "RotateAroundSphericalAxis" ->
            BinaryOp("*", BinaryOp("*", BinaryOp("*", Float(Real(-1)),
                                                 UnaryOp("sin", HalfTheta(g))),
                                   UnaryOp("cos", g._ordered_parameter_dict.spherical_phi)),
                     UnaryOp("sin", g._ordered_parameter_dict.spherical_theta))
      [] g.tag \in {"RotateZ", "PauliY", "PauliZ"} -> Float(Real(0))

\* the phase in units of pi: np.pi / 2 is 1/2
global_phase(g) ==
    CASE g.tag = "SingleQubitGate" -> g._ordered_parameter_dict.global_phase
      [] g.tag \in {"PauliY", "PauliZ"} -> Float(Frac(1, 2))
      [] g.tag \in {"RotateX", "RotateZ", "RotateAroundSphericalAxis"} -> Float(Real(0))

\* SingleQubitGateOperation.single_qubit_gate, SingleQubitGate.single_qubit_gate
single_qubit_gate(g) ==
    IF g.tag = "SingleQubitGate" THEN g
    ELSE GateOperation("SingleQubitGate",
             [qubit |-> g._ordered_qubits_dict.qubit,
              alpha_r |-> alpha_r(g), alpha_i |-> alpha_i(g),
              beta_r |-> beta_r(g), beta_i |-> beta_i(g),
              global_phase |-> global_phase(g)])

new_alpha(s, other) ==
    CalculatorComplexSub(
        CalculatorComplexMul(from_pair(alpha_r(s), alpha_i(s)),
                             from_pair(alpha_r(other), alpha_i(other))),
        CalculatorComplexMul(from_pair(beta_r(other), beta_i(other)),
                             conj(from_pair(beta_r(s), beta_i(s)))))

\* new_beta without the conjugation of alpha
new_beta_without_conj(s, other) ==
    CalculatorComplexAdd(
        CalculatorComplexMul(from_pair(beta_r(s), beta_i(s)),
                             from_pair(alpha_r(other), alpha_i(other))),
        CalculatorComplexMul(from_pair(beta_r(other), beta_i(other)),
                             from_pair(alpha_r(s), alpha_i(s))))

new_beta(s, other) ==
    CalculatorComplexAdd(
        CalculatorComplexMul(from_pair(beta_r(s), beta_i(s)),
                             from_pair(alpha_r(other), alpha_i(other))),
        CalculatorComplexMul(from_pair(beta_r(other), beta_i(other)),
                             conj(from_pair(alpha_r(s), alpha_i(s)))))

global_phase_new(s, other) == BinaryOp("+", global_phase(s), global_phase(other))

\* what a call on a gate hands back: the exception raised ("" for none),
\* the value returned and the gate as the call leaves it
Outcome(raised, value, after) == [raised |-> raised, value |-> value, self |-> after]

\* self * other without the comparison of the qubits
__mul__any_qubits(g, other) ==
    IF ~GateClasses[other.tag].single
    THEN Outcome("TypeError", None, g)
    ELSE Outcome("",
             GateOperation("SingleQubitGate",
                 [qubit |-> g._ordered_qubits_dict.qubit,
                  alpha_r |-> new_alpha(single_qubit_gate(g), single_qubit_gate(other)).re,
                  alpha_i |-> new_alpha(single_qubit_gate(g), single_qubit_gate(other)).im,
                  beta_r |-> new_beta(single_qubit_gate(g), single_qubit_gate(other)).re,
                  beta_i |-> new_beta(single_qubit_gate(g), single_qubit_gate(other)).im,
                  global_phase |->
                      global_phase_new(single_qubit_gate(g), single_qubit_gate(other))]),
             g)

\* self * other
__mul__(g, other) ==
    IF ~GateClasses[other.tag].single
    THEN Outcome("TypeError", None, g)
    ELSE IF involved_qubits(g) = involved_qubits(other)
    THEN Outcome("",
             GateOperation("SingleQubitGate",
                 [qubit |-> g._ordered_qubits_dict.qubit,
                  alpha_r |-> new_alpha(single_qubit_gate(g), single_qubit_gate(other)).re,
                  alpha_i |-> new_alpha(single_qubit_gate(g), single_qubit_gate(other)).im,
                  beta_r |-> new_beta(single_qubit_gate(g), single_qubit_gate(other)).re,
                  beta_i |-> new_beta(single_qubit_gate(g), single_qubit_gate(other)).im,
                  global_phase |->
                      global_phase_new(single_qubit_gate(g), single_qubit_gate(other))]),
             g)
    ELSE Outcome("ValueError", None, g)

\* SingleQubitGate.__imul__: self *= other writes the five entries in place
__imul__(g, other) ==
    IF involved_qubits(g) = involved_qubits(other)
    THEN Outcome("", None,
             [g EXCEPT !._ordered_parameter_dict =
                 [alpha_r |-> new_alpha(g, single_qubit_gate(other)).re,
                  alpha_i |-> new_alpha(g, single_qubit_gate(other)).im,
                  beta_r |-> new_beta(g, single_qubit_gate(other)).re,
                  beta_i |-> new_beta(g, single_qubit_gate(other)).im,
                  global_phase |-> global_phase_new(g, single_qubit_gate(other))]])
    ELSE Outcome("ValueError", None, g)

\* self ** other that scales every parameter
__pow__scaling_all(g, other) ==
    IF GateClasses[g.tag]._rotation_strength_parameters = None
    THEN Outcome("AttributeError", None, g)
    ELSE LET scaled ==
                 [key \in DOMAIN g._ordered_parameter_dict |->
                     BinaryOp("*", g._ordered_parameter_dict[key], other)]
         IN  Outcome("",
                 [g EXCEPT !._ordered_parameter_dict = scaled,
                           !._parametrized = IF AnySymbolic(scaled) THEN TRUE ELSE @],
                 g)

\* self ** other
__pow__(g, other) ==
    IF GateClasses[g.tag]._rotation_strength_parameters = None
    THEN Outcome("AttributeError", None, g)
    ELSE LET scaled ==
                 [key \in DOMAIN g._ordered_parameter_dict |->
                     IF \E i \in 1..Len(GateClasses[g.tag]._rotation_strength_parameters.items) :
                            GateClasses[g.tag]._rotation_strength_parameters.items[i] = key
                     THEN BinaryOp("*", g._ordered_parameter_dict[key], other)
                     ELSE g._ordered_parameter_dict[key]]
         IN  Outcome("",
                 [g EXCEPT !._ordered_parameter_dict = scaled,
                           !._parametrized = IF AnySymbolic(scaled) THEN TRUE ELSE @],
                 g)

RECURSIVE SubstituteFrom_parsing_floats(_, _, _)
\* substitute_parameters without the test for a float: every parameter is
\* parsed
SubstituteFrom_parsing_floats(g, substitution_dict, i) ==
    IF i > Len(GateClasses[g.tag].order)
    THEN Outcome("", None, [g EXCEPT !._parametrized = FALSE])
    ELSE LET key == GateClasses[g.tag].order[i]
             parameter == g._ordered_parameter_dict[key]
         IN  IF parameter.is_float
             THEN Outcome("TypeError", None, g)
             ELSE IF parse_string(substitution_dict, parameter.value).raised
             THEN Outcome("ParsingError", None, g)
             ELSE SubstituteFrom_parsing_floats(
                      [g EXCEPT !._ordered_parameter_dict[key] =
                          Float(parse_string(substitution_dict, parameter.value).value)],
                      substitution_dict, i + 1)

RECURSIVE SubstituteFrom(_, _, _)
\* the loop of substitute_parameters from the i-th parameter on; a parameter
\* that does not parse ends the loop with the exception
SubstituteFrom(g, substitution_dict, i) ==
    IF i > Len(GateClasses[g.tag].order)
    THEN Outcome("", None, [g EXCEPT !._parametrized = FALSE])
    ELSE LET key == GateClasses[g.tag].order[i]
             parameter == g._ordered_parameter_dict[key]
         IN  IF parameter.is_float
             THEN SubstituteFrom(g, substitution_dict, i + 1)
             ELSE IF parse_string(substitution_dict, parameter.value).raised
             THEN Outcome("ParsingError", None, g)
             ELSE SubstituteFrom(
                      [g EXCEPT !._ordered_parameter_dict[key] =
                          Float(parse_string(substitution_dict, parameter.value).value)],
                      substitution_dict, i + 1)

substitute_parameters(g, substitution_dict) ==
    IF is_parametrized(g)
    THEN SubstituteFrom(g, substitution_dict, 1)
    ELSE Outcome("", None, g)

RECURSIVE RemapFrom(_, _, _)
\* the loop of remap_qubits from the i-th role on; a qubit without an
\* entry in the mapping ends the loop with KeyError
RemapFrom(g, mapping_dict, i) ==
    IF i > Len(GateClasses[g.tag].roles)
    THEN Outcome("", None, [g EXCEPT !._involved_qubits = Values(g._ordered_qubits_dict)])
    ELSE LET key == GateClasses[g.tag].roles[i]
             val == g._ordered_qubits_dict[key]
         IN  IF val \notin DOMAIN mapping_dict
             THEN Outcome("KeyError", None, g)
             ELSE RemapFrom([g EXCEPT !._ordered_qubits_dict[key] = mapping_dict[val]],
                            mapping_dict, i + 1)

remap_qubits(g, mapping_dict) == RemapFrom(g, mapping_dict, 1)

(***************************************************************************)
(* Unitary matrices: lists of rows of complex fractions.                   *)
(***************************************************************************)
ComplexMul(a, b) ==
    Complex(FracSub(FracMul(a.re, b.re), FracMul(a.im, b.im)),
            FracAdd(FracMul(a.re, b.im), FracMul(a.im, b.re)))

ComplexConj(a) == Complex(a.re, FracNeg(a.im))

ComplexNeg(a) == Complex(FracNeg(a.re), FracNeg(a.im))

\* np.exp(1j * x * pi) for x a multiple of 1/2
Exp1j(x) == Complex(Cos(x), Sin(x))

RECURSIVE RowTimesColumn(_, _, _, _, _)
\* the sum of a[i][1..k] * b[1..k][j]
RowTimesColumn(a, b, i, j, k) ==
    IF k = 0 THEN Complex(Real(0), Real(0))
    ELSE ComplexAdd(RowTimesColumn(a, b, i, j, k - 1), ComplexMul(a[i][k], b[k][j]))

\* a @ b for two square matrices
MatMul(a, b) ==
    [i \in 1..Len(a) |-> [j \in 1..Len(a) |-> RowTimesColumn(a, b, i, j, Len(a))]]

MatScale(z, a) == [i \in 1..Len(a) |-> [j \in 1..Len(a) |-> ComplexMul(z, a[i][j])]]

CZero == Complex(Real(0), Real(0))

COne == Complex(Real(1), Real(0))

\* unitary_matrix_from_parameters of the class, the parameters floats
unitary_matrix_from_parameters(cls, parameters) ==
    CASE cls = "SingleQubitGate" ->
            LET alpha == Complex(parameters.alpha_r, parameters.alpha_i)
                beta == Complex(parameters.beta_r, parameters.beta_i)
            IN  MatScale(Exp1j(parameters.global_phase),
                         << <<alpha, ComplexNeg(ComplexConj(beta))>>,
                            <<beta, ComplexConj(alpha)>> >>)
      [] cls = "RotateX" ->
            LET c == Cos(FracDiv(parameters.theta, Real(2)))
                s == Sin(FracDiv(parameters.theta, Real(2)))
            IN  << <<Complex(c, Real(0)), Complex(Real(0), FracNeg(s))>>,
                   <<Complex(Real(0), FracNeg(s)), Complex(c, Real(0))>> >>
      [] cls = "RotateZ" ->
            LET c == Cos(FracDiv(parameters.theta, Real(2)))
                s == Sin(FracDiv(parameters.theta, Real(2)))
            IN  << <<Complex(c, FracNeg(s)), CZero>>,
                   <<CZero, Complex(c, s)>> >>
      [] cls = "RotateAroundSphericalAxis" ->
            LET c == Complex(Cos(FracDiv(parameters.theta, Real(2))), Real(0))
                s == Complex(Sin(FracDiv(parameters.theta, Real(2))), Real(0))
                vx == Complex(FracMul(Sin(parameters.spherical_theta),
                                      Cos(parameters.spherical_phi)), Real(0))
                vy == Complex(FracMul(Sin(parameters.spherical_theta),
                                      Sin(parameters.spherical_phi)), Real(0))
                vz == Complex(Cos(parameters.spherical_theta), Real(0))
                j == Complex(Real(0), Real(1))
                minus_j == Complex(Real(0), Real(-1))
            IN  << <<ComplexAdd(c, ComplexMul(minus_j, ComplexMul(s, vz))),
                     ComplexMul(s, ComplexAdd(ComplexMul(minus_j, vx), ComplexNeg(vy)))>>,
                   <<ComplexMul(s, ComplexAdd(ComplexMul(minus_j, vx), vy)),
                     ComplexAdd(c, ComplexMul(j, ComplexMul(s, vz)))>> >>
      [] cls = "PauliY" ->
            << <<CZero, Complex(Real(0), Real(-1))>>,
               <<Complex(Real(0), Real(1)), CZero>> >>
      [] cls = "PauliZ" ->
            << <<COne, CZero>>, <<CZero, Complex(Real(-1), Real(0))>> >>
      [] cls = "CNOT" ->
            << <<COne, CZero, CZero, CZero>>, <<CZero, COne, CZero, CZero>>,
               <<CZero, CZero, CZero, COne>>, <<CZero, CZero, COne, CZero>> >>
      [] cls = "ControlledPhaseShift" ->
            << <<COne, CZero, CZero, CZero>>, <<CZero, COne, CZero, CZero>>,
               <<CZero, CZero, COne, CZero>>,
               <<CZero, CZero, CZero, Exp1j(parameters.theta)>> >>

\* the property unitary_matrix; symbolic entries that the flag does not
\* announce reach the arithmetic of the matrix as strings
unitary_matrix(g) ==
    IF is_parametrized(g)
    THEN Outcome("ValueError", None, g)
    ELSE IF AnySymbolic(g._ordered_parameter_dict)
    THEN Outcome("TypeError", None, g)
    ELSE Outcome("",
             Matrix(2 * Len(GateClasses[g.tag].roles), 2 * Len(GateClasses[g.tag].roles),
                    unitary_matrix_from_parameters(g.tag,
                        [key \in DOMAIN g._ordered_parameter_dict |->
                            FloatValue(g._ordered_parameter_dict[key])])),
             g)

NoCircuitCall ==
    [call |-> "none", target |-> "original", arg |-> None, raised |-> "",
     original |-> None, duplicate |-> None]

InitHeap ==
    /\ heap = <<>>
    /\ original = Circuit
    /\ duplicate = None
    /\ heap_last = NoCircuitCall
    /\ heap_calls = 0

NoOwnCall ==
    [call |-> "none", target |-> "a", arg |-> None, raised |-> "",
     a |-> None, b |-> None, r |-> None]

\* no circuits were concatenated
InitOwners ==
    /\ circuit_a = Circuit
    /\ circuit_b = Circuit
    /\ circuit_r = None
    /\ own_last = NoOwnCall
    /\ own_calls = 0

\* no DoUnitary was constructed
InitDoUnitary ==
    /\ free_parameters = <<>>
    /\ resume_file_name = None
    /\ resume_call_parameters = None
    /\ call_parameters = None
    /\ parameter_substitution_dict = <<>>
    /\ do_pc = "idle"
    /\ do_result = NoResult
    /\ resume_file = None
    /\ do_last = NoCallRecord
    /\ do_calls = 0

(***************************************************************************)
(* The calls on one gate. `gate` is the gate the calls are made on,        *)
(* `operand` the second operand of the products.                             *)
(***************************************************************************)
GateCall(name, arg, outcome) ==
    [call |-> name, arg |-> arg, pre |-> gate,
     raised |-> outcome.raised, value |-> outcome.value]

NoGateCall == [call |-> "none", arg |-> None, pre |-> None, raised |-> "", value |-> None]

IdentityGate == GateOperation("SingleQubitGate", <<>>)

\* the gates that are constructed
Constructions ==
    { IdentityGate,
      GateOperation("SingleQubitGate",
          [alpha_r |-> Float(Real(0)), beta_r |-> Float(Real(1)),
           global_phase |-> Float(Frac(1, 2))]),
      GateOperation("SingleQubitGate", [alpha_r |-> Symbol("alpha")]),
      GateOperation("SingleQubitGate",
          [alpha_r |-> Float(Frac(3, 5)), beta_i |-> Float(Frac(4, 5))]),
      GateOperation("RotateX", [theta |-> Float(Real(1))]),
      GateOperation("RotateX", [theta |-> Symbol("theta")]),
      GateOperation("RotateZ", [qubit |-> 1, theta |-> Float(Real(1))]),
      GateOperation("RotateAroundSphericalAxis",
          [theta |-> Float(Real(1)), spherical_phi |-> Float(Frac(1, 2))]),
      GateOperation("PauliZ", <<>>),
      GateOperation("CNOT", <<>>),
      GateOperation("ControlledPhaseShift", [theta |-> Symbol("theta")]) }

\* the second operands
Operands ==
    { GateOperation("SingleQubitGate",
          [alpha_r |-> Float(Real(0)), alpha_i |-> Float(Real(1))]),
      GateOperation("RotateX", [theta |-> Symbol("theta")]),
      GateOperation("RotateZ", [theta |-> Float(Real(3))]),
      GateOperation("PauliY", <<>>),
      GateOperation("PauliZ", [qubit |-> 1]),
      GateOperation("CNOT", <<>>) }

\* the substitution dictionaries
Substitutions ==
    { <<>>,
      [theta |-> Real(1)],
      [theta |-> Real(2), alpha |-> Real(0)] }

\* the exponents
Exponents == { Float(Real(2)), Float(Real(-1)), Symbol("theta") }

\* the qubit mappings
Mappings ==
    { (0 :> 1) @@ (1 :> 0),
      (0 :> 2) @@ (1 :> 3),
      (0 :> 2) }

Called(name, arg, outcome) ==
    /\ gate_calls < MaxGateCalls
    /\ gate_calls' = gate_calls + 1
    /\ gate' = outcome.self
    /\ gate_last' = GateCall(name, arg, outcome)
    /\ UNCHANGED operand
    /\ UNCHANGED <<cvars, mvars, hvars, ovars, dvars>>

\* gate.substitute_parameters(substitution_dict)
SubstituteParameters(substitution_dict) ==
    Called("substitute_parameters", substitution_dict,
           substitute_parameters(gate, substitution_dict))

\* gate ** exponent
Pow(exponent) == Called("pow", exponent, __pow__(gate, exponent))

\* gate * operand
Mul ==
    /\ GateClasses[gate.tag].single
    /\ Called("mul", operand, __mul__(gate, operand))

\* gate *= operand: a SingleQubitGate is changed in place, for every other
\* class the name is bound to the product
IMul ==
    /\ GateClasses[gate.tag].single
    /\ IF gate.tag = "SingleQubitGate"
       THEN Called("imul", operand, __imul__(gate, operand))
       ELSE Called("imul", operand,
                   IF __mul__(gate, operand).raised = ""
                   THEN Outcome("", None, __mul__(gate, operand).value)
                   ELSE __mul__(gate, operand))

\* gate.unitary_matrix
UnitaryMatrix == Called("unitary_matrix", None, unitary_matrix(gate))

\* gate.remap_qubits(mapping_dict)
RemapQubits(mapping_dict) ==
    Called("remap_qubits", mapping_dict, remap_qubits(gate, mapping_dict))

\* gate = <the gate the last call returned>
Assign ==
    /\ gate_last.call \in {"pow", "mul"}
    /\ gate_last.raised = ""
    /\ gate' = gate_last.value
    /\ gate_last' = [NoGateCall EXCEPT !.call = "assign", !.pre = gate]
    /\ UNCHANGED <<operand, gate_calls>>
    /\ UNCHANGED <<cvars, mvars, hvars, ovars, dvars>>

InitGate ==
    /\ gate = IdentityGate
    /\ operand = IdentityGate
    /\ gate_last = NoGateCall
    /\ gate_calls = 0

InitGates ==
    /\ InitCircuit
    /\ InitMeasurement
    /\ InitHeap
    /\ InitOwners
    /\ InitDoUnitary
    /\ gate \in Constructions
    /\ operand \in Operands
    /\ gate_last = NoGateCall
    /\ gate_calls = 0

NextGates ==
    \/ \E substitution_dict \in Substitutions : SubstituteParameters(substitution_dict)
    \/ \E exponent \in Exponents : Pow(exponent)
    \/ Mul
    \/ IMul
    \/ UnitaryMatrix
    \/ \E mapping_dict \in Mappings : RemapQubits(mapping_dict)
    \/ Assign


(***************************************************************************)
(* Python objects. The operations list of a circuit holds references to    *)
(* operation objects on a heap; the two dictionaries of a gate are objects *)
(* of their own, so that a method that writes into a dictionary changes    *)
(* every gate object that holds it. A Definition has no method that        *)
(* changes it and is kept in the definitions list as a value.              *)
(***************************************************************************)
Ref(id) == [tag |-> "ref", id |-> id]

Dict(items) == [tag |-> "dict", items |-> items]

IsGate(op) == op.tag \in DOMAIN GateClasses

\* the heap after the construction of the operation op, and the new reference
new(objects, op) ==
    IF IsGate(op)
    THEN [heap |-> objects \o
                   << Dict(op._ordered_qubits_dict),
                      Dict(op._ordered_parameter_dict),
                      [op EXCEPT !._ordered_qubits_dict = Len(objects) + 1,
                                 !._ordered_parameter_dict = Len(objects) + 2] >>,
          ref |-> Ref(Len(objects) + 3)]
    ELSE [heap |-> Append(objects, op), ref |-> Ref(Len(objects) + 1)]

\* the operation a reference stands for, its dictionaries read out
value(objects, ref) ==
    IF IsGate(objects[ref.id])
    THEN [objects[ref.id] EXCEPT !._ordered_qubits_dict = objects[@].items,
                                 !._ordered_parameter_dict = objects[@].items]
    ELSE objects[ref.id]

\* the heap after a method has left the operation of the reference as op:
\* the entries of the dictionaries are written in place
write(objects, ref, op) ==
    IF IsGate(op)
    THEN [objects EXCEPT
            ![objects[ref.id]._ordered_qubits_dict] = Dict(op._ordered_qubits_dict),
            ![objects[ref.id]._ordered_parameter_dict] = Dict(op._ordered_parameter_dict),
            ![ref.id] = [@ EXCEPT !._parametrized = op._parametrized,
                                  !._involved_qubits = op._involved_qubits]]
    ELSE [objects EXCEPT ![ref.id] = op]

\* GateOperation.__copy__ without the copies of the two dictionaries
copy_sharing_dicts(objects, ref) ==
    [heap |-> Append(objects, objects[ref.id]), ref |-> Ref(Len(objects) + 1)]

\* copy(op): GateOperation.__copy__ copies the two dictionaries, the copy
\* of any other operation is a new object with the same attributes
copy(objects, ref) == new(objects, value(objects, ref))

PragmaActiveReset(qubit) == [tag |-> "PragmaActiveReset", qubit |-> qubit]

\* op.remap_qubits(mapping_dict) of a gate, a PragmaActiveReset or a
\* MeasureQubit
Operation_remap_qubits(op, mapping_dict) ==
    IF IsGate(op) THEN remap_qubits(op, mapping_dict)
    ELSE IF op.tag = "PragmaActiveReset"
    THEN Outcome("NotImplementedError", None, op)
    ELSE IF op.qubit \in DOMAIN mapping_dict
    THEN Outcome("", None, [op EXCEPT !.qubit = mapping_dict[op.qubit]])
    ELSE Outcome("KeyError", None, op)

\* op.substitute_parameters(substitution_dict) of a gate or a MeasureQubit
Operation_substitute_parameters(op, substitution_dict) ==
    IF IsGate(op) THEN substitute_parameters(op, substitution_dict)
    ELSE Outcome("", None, op)

\* what a call on a circuit leaves: the exception raised ("" for none), the
\* heap and the circuit
Left(raised, objects, c) == [raised |-> raised, heap |-> objects, circuit |-> c]

RECURSIVE CopyFrom(_, _, _, _)
\* the loop of __deepcopy__ over the operations from the i-th on
CopyFrom(objects, list, operations_new, i) ==
    IF i > Len(list) THEN [heap |-> objects, operations |-> operations_new]
    ELSE CopyFrom(copy(objects, list[i]).heap, list,
                  Append(operations_new, copy(objects, list[i]).ref), i + 1)

\* Circuit.__copy__: new lists of the same objects
Circuit__copy__(objects, c) == Left("", objects, c)

\* Circuit.__deepcopy__
__deepcopy__(objects, c) ==
    Left("", CopyFrom(objects, c.operations, <<>>, 1).heap,
         [definitions |-> c.definitions,
          operations |-> CopyFrom(objects, c.operations, <<>>, 1).operations])

RECURSIVE RemapAll(_, _, _, _)
\* the loop of Circuit.remap_qubits over the operations from the i-th on
RemapAll(objects, c, mapping_dict, i) ==
    IF i > Len(c.operations) THEN Left("", objects, c)
    ELSE LET done == Operation_remap_qubits(value(objects, c.operations[i]), mapping_dict)
         IN  IF done.raised # ""
             THEN Left(done.raised, write(objects, c.operations[i], done.self), c)
             ELSE RemapAll(write(objects, c.operations[i], done.self), c, mapping_dict, i + 1)

Circuit_remap_qubits(objects, c, mapping_dict) == RemapAll(objects, c, mapping_dict, 1)

RECURSIVE SubstituteAll(_, _, _, _)
\* the loop of Circuit.substitute_parameters over the operations from the
\* i-th on; the loop over the definitions changes nothing
SubstituteAll(objects, c, substitution_dict, i) ==
    IF i > Len(c.operations) THEN Left("", objects, c)
    ELSE LET done == Operation_substitute_parameters(value(objects, c.operations[i]),
                                                     substitution_dict)
         IN  IF done.raised # ""
             THEN Left(done.raised, write(objects, c.operations[i], done.self), c)
             ELSE SubstituteAll(write(objects, c.operations[i], done.self), c,
                                substitution_dict, i + 1)

Circuit_substitute_parameters(objects, c, substitution_dict) ==
    SubstituteAll(objects, c, substitution_dict, 1)

\* the operations of a circuit, read from the heap
contents(objects, c) ==
    [definitions |-> c.definitions,
     operations |-> [i \in 1..Len(c.operations) |-> value(objects, c.operations[i])]]

\* CalculatorFloat == / isclose: equal floats or the same expression
isclose(a, b) == a = b

\* Python's == on two operations that are not Definitions
Operation__eq__(a, b) ==
    IF IsGate(a) /\ GateClasses[a.tag].single
    THEN /\ IsGate(b) /\ GateClasses[b.tag].single
         /\ isclose(alpha_r(a), alpha_r(b)) /\ isclose(alpha_i(a), alpha_i(b))
         /\ isclose(beta_r(a), beta_r(b)) /\ isclose(beta_i(a), beta_i(b))
         /\ a._ordered_qubits_dict.qubit = b._ordered_qubits_dict.qubit
    ELSE IF IsGate(a)
    THEN /\ b.tag = a.tag
         /\ a._ordered_parameter_dict = b._ordered_parameter_dict
         /\ a._ordered_qubits_dict = b._ordered_qubits_dict
    ELSE a = b

\* Circuit.__eq__ of two circuits read from the heap
Circuit__eq__(a, b) ==
    /\ Len(a.operations) = Len(b.operations)
    /\ \A i \in 1..Len(a.operations) : Operation__eq__(a.operations[i], b.operations[i])
    /\ Len(a.definitions) = Len(b.definitions)
    /\ \A i \in 1..Len(a.definitions) : DefinitionEq(a.definitions[i], b.definitions[i])

(***************************************************************************)
(* The calls on a circuit of objects and on its deep copy.                 *)
(***************************************************************************)
\* the circuit a call is made on
Target(t) == IF t = "original" THEN original ELSE duplicate

Snapshot(c) == IF c = None THEN None ELSE contents(heap, c)

CircuitCall(name, t, arg, raised) ==
    [call |-> name, target |-> t, arg |-> arg, raised |-> raised,
     original |-> Snapshot(original), duplicate |-> Snapshot(duplicate)]

Acted(name, t, arg, left) ==
    /\ Target(t) # None
    /\ heap_calls < MaxHeapCalls
    /\ heap_calls' = heap_calls + 1
    /\ heap' = left.heap
    /\ original' = IF t = "original" THEN left.circuit ELSE original
    /\ duplicate' = IF t = "duplicate" THEN left.circuit ELSE duplicate
    /\ heap_last' = CircuitCall(name, t, arg, left.raised)
    /\ UNCHANGED <<cvars, mvars, gvars, ovars, dvars>>

\* the operations that are constructed and put into a circuit
NewOperations ==
    { GateOperation("RotateZ", [theta |-> Symbol("theta")]),
      MeasureQubit(1, "ro", 1) }

\* the qubit mappings of a circuit
CircuitMappings == { (0 :> 1) @@ (1 :> 0), (0 :> 2) @@ (1 :> 3) }

\* duplicate = deepcopy(original)
DeepCopy ==
    /\ duplicate = None
    /\ heap' = __deepcopy__(heap, original).heap
    /\ duplicate' = __deepcopy__(heap, original).circuit
    /\ heap_last' = CircuitCall("deepcopy", "original", None, "")
    /\ UNCHANGED <<original, heap_calls>>
    /\ UNCHANGED <<cvars, mvars, gvars, ovars, dvars>>

\* circuit += op, op a new object
AppendNew(t, op) ==
    /\ Target(t) # None
    /\ __len__(Target(t)) < MaxLen
    /\ Acted("iadd", t, op,
             Left("", new(heap, op).heap, _append_operation(Target(t), new(heap, op).ref)))

\* circuit += circuit[key], the object that the circuit holds at key
AppendContained(t, key) ==
    /\ Target(t) # None
    /\ __len__(Target(t)) < MaxLen
    /\ ~__getitem__(Target(t), key).raised
    /\ Acted("iadd_contained", t, None,
             Left("", heap, _append_operation(Target(t), __getitem__(Target(t), key).value)))

\* circuit += circuit
IAddItself(t) ==
    /\ Target(t) # None
    /\ 2 * __len__(Target(t)) <= MaxLen + 1
    /\ Acted("iadd_self", t, None, Left("", heap, __iadd__(Target(t), Target(t))))

\* circuit.insert(index, op), op a new object
InsertNew(t, index, op) ==
    /\ Target(t) # None
    /\ __len__(Target(t)) < MaxLen
    /\ Acted("insert", t, op,
             Left("", new(heap, op).heap, insert(Target(t), index, new(heap, op).ref)))

\* del circuit[key]
Delete(t, key) ==
    /\ Target(t) # None
    /\ Acted("delitem", t, None,
             Left(IF DelAt(Target(t), key).raised THEN "IndexError" ELSE "",
                  heap, DelAt(Target(t), key).circuit))

\* circuit[key] = op, op a new object
SetItemNew(t, key, op) ==
    /\ Target(t) # None
    /\ Acted("setitem", t, op,
             Left(IF __setitem__(Target(t), key, new(heap, op).ref).raised
                  THEN "IndexError" ELSE "",
                  new(heap, op).heap,
                  __setitem__(Target(t), key, new(heap, op).ref).circuit))

\* circuit.remap_qubits(mapping_dict)
CircuitRemapQubits(t, mapping_dict) ==
    /\ Target(t) # None
    /\ Acted("remap_qubits", t, mapping_dict,
             Circuit_remap_qubits(heap, Target(t), mapping_dict))

\* circuit.substitute_parameters(substitution_dict)
CircuitSubstituteParameters(t, substitution_dict) ==
    /\ Target(t) # None
    /\ Acted("substitute_parameters", t, substitution_dict,
             Circuit_substitute_parameters(heap, Target(t), substitution_dict))

RECURSIVE Built(_, _, _)
\* the heap and the circuit after `circuit += op` for the operations of a
\* list, each a new object
Built(objects, c, list) ==
    IF list = <<>> THEN [heap |-> objects, circuit |-> c]
    ELSE IF IsDefinition(Head(list))
    THEN Built(objects, _append_operation(c, Head(list)), Tail(list))
    ELSE Built(new(objects, Head(list)).heap,
               _append_operation(c, new(objects, Head(list)).ref), Tail(list))

\* the circuits the calls start from
Programs ==
    { <<>>,
      << Definition("ro", "bit", 1, FALSE, FALSE),
         GateOperation("RotateX", [theta |-> Symbol("theta")]),
         GateOperation("CNOT", <<>>) >>,
      << GateOperation("SingleQubitGate", [alpha_r |-> Symbol("alpha")]),
         MeasureQubit(0, "ro", 0) >> }

InitObjects ==
    /\ InitCircuit
    /\ InitMeasurement
    /\ InitGate
    /\ InitOwners
    /\ InitDoUnitary
    /\ \E list \in Programs :
          /\ heap = Built(<<>>, Circuit, list).heap
          /\ original = Built(<<>>, Circuit, list).circuit
    /\ duplicate = None
    /\ heap_last = NoCircuitCall
    /\ heap_calls = 0

Circuits == {"original", "duplicate"}

NextObjects ==
    \/ DeepCopy
    \/ \E t \in Circuits, op \in NewOperations : AppendNew(t, op)
    \/ \E t \in Circuits, key \in 0..1 : AppendContained(t, key)
    \/ \E t \in Circuits : IAddItself(t)
    \/ \E t \in Circuits, op \in NewOperations : InsertNew(t, 0, op)
    \/ \E t \in Circuits, key \in 0..1 : Delete(t, key)
    \/ \E t \in Circuits, op \in NewOperations : SetItemNew(t, 0, op)
    \/ \E t \in Circuits, mapping_dict \in CircuitMappings : CircuitRemapQubits(t, mapping_dict)
    \/ \E t \in Circuits, substitution_dict \in Substitutions :
          CircuitSubstituteParameters(t, substitution_dict)

(***************************************************************************)
(* The calls on circuits that were concatenated: circuit_r = circuit_a +   *)
(* circuit_b and circuit_a += circuit_b put the operation objects of the   *)
(* operands into the result, the lists extended with the same references.  *)
(***************************************************************************)
\* the circuit of a name
Owner(t) == IF t = "a" THEN circuit_a ELSE IF t = "b" THEN circuit_b ELSE circuit_r

OwnCall(name, t, arg, raised) ==
    [call |-> name, target |-> t, arg |-> arg, raised |-> raised,
     a |-> Snapshot(circuit_a), b |-> Snapshot(circuit_b), r |-> Snapshot(circuit_r)]

\* circuit_r = circuit_a + circuit_b
Add ==
    /\ circuit_r = None
    /\ circuit_r' = __add__(circuit_a, circuit_b)
    /\ own_last' = OwnCall("add", "r", None, "")
    /\ UNCHANGED <<circuit_a, circuit_b, own_calls>>
    /\ UNCHANGED <<cvars, mvars, gvars, hvars, dvars>>

\* circuit_a += circuit_b
IAddOther ==
    /\ own_calls < MaxOwnCalls
    /\ __len__(circuit_a) + __len__(circuit_b) <= 2 * MaxLen
    /\ own_calls' = own_calls + 1
    /\ circuit_a' = __iadd__(circuit_a, circuit_b)
    /\ own_last' = OwnCall("iadd", "a", None, "")
    /\ UNCHANGED <<circuit_b, circuit_r>>
    /\ UNCHANGED <<cvars, mvars, gvars, hvars, dvars>>

\* a call that changes the operations of the circuit t in place
Changed(name, t, arg, left) ==
    /\ Owner(t) # None
    /\ own_calls < MaxOwnCalls
    /\ own_calls' = own_calls + 1
    /\ heap' = left.heap
    /\ own_last' = OwnCall(name, t, arg, left.raised)
    /\ UNCHANGED <<circuit_a, circuit_b, circuit_r>>
    /\ UNCHANGED <<original, duplicate, heap_last, heap_calls>>
    /\ UNCHANGED <<cvars, mvars, gvars, dvars>>

\* circuit.remap_qubits(mapping_dict) on one of the circuits
OwnerRemapQubits(t, mapping_dict) ==
    /\ Owner(t) # None
    /\ Changed("remap_qubits", t, mapping_dict,
               Circuit_remap_qubits(heap, Owner(t), mapping_dict))

\* circuit.substitute_parameters(substitution_dict) on one of the circuits
OwnerSubstituteParameters(t, substitution_dict) ==
    /\ Owner(t) # None
    /\ Changed("substitute_parameters", t, substitution_dict,
               Circuit_substitute_parameters(heap, Owner(t), substitution_dict))

\* the circuits the operands are built from
OwnedPrograms ==
    Programs \cup
    { << GateOperation("RotateX", [theta |-> Symbol("theta")]),
         PragmaActiveReset(0) >> }

\* the qubit mappings of the operands and of their sum: the mappings of a
\* circuit and two that have no entry for one of the two qubits
OwnerMappings == CircuitMappings \cup { 0 :> 1, 1 :> 0 }

\* two circuits built from new objects
InitOwned ==
    /\ InitCircuit
    /\ InitMeasurement
    /\ InitGate
    /\ InitDoUnitary
    /\ \E first \in OwnedPrograms, second \in OwnedPrograms :
          LET left == Built(<<>>, Circuit, first)
              right == Built(left.heap, Circuit, second)
          IN  /\ heap = right.heap
              /\ circuit_a = left.circuit
              /\ circuit_b = right.circuit
    /\ original = Circuit
    /\ duplicate = None
    /\ heap_last = NoCircuitCall
    /\ heap_calls = 0
    /\ circuit_r = None
    /\ own_last = NoOwnCall
    /\ own_calls = 0

Owners == {"a", "b", "r"}

NextOwners ==
    \/ Add
    \/ IAddOther
    \/ \E t \in Owners, mapping_dict \in OwnerMappings : OwnerRemapQubits(t, mapping_dict)
    \/ \E t \in Owners, substitution_dict \in Substitutions :
          OwnerSubstituteParameters(t, substitution_dict)

(***************************************************************************)
(* Serialisation of a circuit to a configuration and back.                 *)
(***************************************************************************)
\* Definition.to_qonfig
Definition_to_qonfig(d) ==
    [cls |-> "Definition", register_name |-> d.name, vartype |-> d.vartype,
     length |-> d.length, is_input |-> d.is_input, is_output |-> d.is_output]

\* Definition.from_qonfig that does not pass the type of the register
Definition_from_qonfig_default_vartype(config) ==
    Definition(config.register_name, "float", config.length,
               config.is_input, config.is_output)

\* Definition.from_qonfig
Definition_from_qonfig(config) ==
    Definition(config.register_name, config.vartype, config.length,
               config.is_input, config.is_output)

\* MeasureQubit.to_qonfig
MeasureQubit_to_qonfig(op) ==
    [cls |-> "MeasureQubit", qubit |-> op.qubit, readout |-> op.readout,
     readout_index |-> op.readout_index]

\* MeasureQubit.from_qonfig
MeasureQubit_from_qonfig(config) ==
    MeasureQubit(config.qubit, config.readout, config.readout_index)

\* GateOperation.to_qonfig of a Hadamard: the dictionary of the qubits and
\* the empty dictionary of the parameters
Hadamard_to_qonfig(op) ==
    [cls |-> "Hadamard", ordered_qubits_dict |-> [qubit |-> op.qubit],
     ordered_parameter_dict |-> <<>>]

\* GateOperation.from_qonfig of a Hadamard: cls(**kwargs)
Hadamard_from_qonfig(config) == Hadamard(config.ordered_qubits_dict.qubit)

\* operation.to_qonfig()
Operation_to_qonfig(op) ==
    CASE op.tag = "Definition" -> Definition_to_qonfig(op)
      [] op.tag = "MeasureQubit" -> MeasureQubit_to_qonfig(op)
      [] op.tag = "Hadamard" -> Hadamard_to_qonfig(op)

\* config.to_instance(): from_qonfig of the class the configuration names
to_instance(config) ==
    CASE config.cls = "Definition" -> Definition_from_qonfig(config)
      [] config.cls = "MeasureQubit" -> MeasureQubit_from_qonfig(config)
      [] config.cls = "Hadamard" -> Hadamard_from_qonfig(config)

\* Circuit.to_qonfig
to_qonfig(c) ==
    [cls |-> "Circuit",
     definitions |-> [i \in 1..Len(c.definitions) |-> Operation_to_qonfig(c.definitions[i])],
     operations |-> [i \in 1..Len(c.operations) |-> Operation_to_qonfig(c.operations[i])]]

RECURSIVE AddInstances(_, _)
\* circuit += config.to_instance() for the configurations of a list
AddInstances(c, list) ==
    IF list = <<>> THEN c
    ELSE AddInstances(_append_operation(c, to_instance(Head(list))), Tail(list))

\* Circuit.from_qonfig
from_qonfig(config) ==
    AddInstances(AddInstances(Circuit, config.definitions), config.operations)

(***************************************************************************)
(* DoUnitary (qoqo/do_unitary/do_unitary.py): the call of a DoUnitary      *)
(* object with the parameters of the unitary evolution.                    *)
(***************************************************************************)
\* the dictionary the call builds from its parameters: a dictionary is taken
\* as it is, None is the empty dictionary, a list is zipped with the names
\* of the free parameters
substitution(names, parameters) ==
    IF parameters = None THEN <<>>
    ELSE IF parameters.tag = "dict" THEN parameters.items
    ELSE LET n == Min(Len(names), Len(parameters.items))
             position(name) ==
                 CHOOSE i \in 1..n : names[i] = name /\ \A k \in (i + 1)..n : names[k] # name
         IN  [name \in { names[i] : i \in 1..n } |-> parameters.items[position(name)]]

\* isinstance(parameters, dict) after None was replaced by the empty dictionary
is_dict(parameters) == parameters = None \/ parameters.tag = "dict"

\* the check of the call: a dictionary without one of the free parameters
unset(names, parameters) ==
    /\ is_dict(parameters)
    /\ \E i \in 1..Len(names) : names[i] \notin DOMAIN substitution(names, parameters)

\* the constant circuit with the substitution of the call appended
with_substitution(names, parameters) ==
    _append_operation(constant_circuit,
                      PragmaParameterSubstitution(substitution(names, parameters)))

\* DoUnitary.__call__ up to the first dispatch of the invocation, and to
\* its end when the invocation dispatches nothing
DoUnitary__call__(parameters) ==
    /\ do_pc # "measuring"
    /\ pc # "dispatching"
    /\ do_calls < MaxDoCalls
    /\ do_calls' = do_calls + 1
    /\ do_last' = CallRecord("DoUnitary", parameters)
    /\ call_parameters' = parameters
    /\ parameter_substitution_dict' = substitution(free_parameters, parameters)
    /\ IF unset(free_parameters, parameters)
       THEN /\ do_pc' = "raised"
            /\ do_result' = Raises("ValueError")
            /\ UNCHANGED <<resume_call_parameters, resume_file, mvars>>
       ELSE /\ resume_call_parameters' =
                  IF resume_file_name # None
                  THEN Dict(substitution(free_parameters, parameters))
                  ELSE resume_call_parameters
            /\ calls' = calls + 1
            /\ dispatched' = <<>>
            /\ none_at' = 0
            /\ output_register_dict' = <<>>
            /\ return_None' = FALSE
            /\ IF backend = None
               THEN /\ pc' = "done"
                    /\ co' = 0
                    /\ result' = Series(<<>>)
                    /\ pauli' = NoPauli
               ELSE Continue(0, FALSE, <<>>)
            /\ IF pc' = "dispatching"
               THEN /\ constant_circuit' = with_substitution(free_parameters, parameters)
                    /\ do_pc' = "measuring"
                    /\ do_result' = NoResult
                    /\ UNCHANGED resume_file
               ELSE LET after == AfterInvocation(
                                     with_substitution(free_parameters, parameters),
                                     result', resume_info,
                                     substitution(free_parameters, parameters),
                                     resume_call_parameters')
                    IN  /\ constant_circuit' = after.constant_circuit
                        /\ do_pc' = after.do_pc
                        /\ do_result' = after.do_result
                        /\ resume_file' = after.resume_file
            /\ UNCHANGED <<circuit_list, resume_list, resume_info, backend, device,
                           measurement_input>>
    /\ UNCHANGED <<free_parameters, resume_file_name, cvars, gvars, hvars, ovars>>

\* the measurements a DoUnitary is constructed with
DoMeasurements ==
    { \* one circuit and a constant circuit
      BasisRotationMeasurement(BackendBaseClass(2),
          BRMeasurementInput("ro" :> ((0 :> <<>>) @@ (1 :> <<0, 1>>)),
              Matrix(2, 2, <<<<Half, Zero>>, <<Imag, One>>>>), 2, 2, <<"a", "b">>, FALSE),
          <<MeasureCircuit("ro")>>, FromList(<<Hadamard(0)>>), None, None),
      \* no circuit: the invocation dispatches nothing
      BasisRotationMeasurement(BackendBaseClass(2),
          BRMeasurementInput(<<>>, Matrix(0, 0, <<>>), 0, 0, <<>>, FALSE),
          <<>>, FromList(<<Definition("ro", "bit", 2, FALSE, TRUE)>>), None, None),
      \* two circuits and a resume list with one entry
      BasisRotationMeasurement(BackendBaseClass(2),
          BRMeasurementInput("ro" :> ((0 :> <<>>) @@ (1 :> <<0, 1>>)),
              Identity2, 2, 2, <<"a", "b">>, FALSE),
          <<MeasureCircuit("ro"), MeasureCircuit("ro")>>, Circuit, None,
          List(<<[resume |-> "first"]>>)) }

\* a file name, where None may stand instead
FileName(name) == [tag |-> "str", name |-> name]

\* the names of the free parameters
FreeParameters == { <<>>, <<"alpha", "beta">> }

\* the parameters of a call: nothing, a dictionary or a list
CallParameters ==
    { None,
      Dict("alpha" :> Real(1)),
      Dict(("alpha" :> Real(1)) @@ ("beta" :> Real(2))),
      List(<<Real(1)>>),
      List(<<Real(1), Real(2)>>) }

\* DoUnitary.__init__ with a measurement, its backend and its device
InitDoUnitaries ==
    /\ InitCircuit
    /\ InitGate
    /\ InitHeap
    /\ InitOwners
    /\ \E m \in DoMeasurements : Constructed(m)
    /\ free_parameters \in FreeParameters
    /\ resume_file_name \in {None, FileName("resume.yaml")}
    /\ resume_call_parameters = None
    /\ call_parameters = None
    /\ parameter_substitution_dict = <<>>
    /\ do_pc = "idle"
    /\ do_result = NoResult
    /\ resume_file = None
    /\ do_last = NoCallRecord
    /\ do_calls = 0

NextDoUnitary ==
    \/ \E parameters \in CallParameters : DoUnitary__call__(parameters)
    \/ __call__
    \/ BackendReturns
    \/ BackendReturnsNone
    \/ \E exception \in BackendErrors : BackendRaises(exception)
    \/ ResumeLookupRaises

vars == <<cvars, mvars, gvars, hvars, ovars, dvars>>

Init ==
    InitCircuit /\ InitMeasurement /\ InitGate /\ InitHeap /\ InitOwners /\ InitDoUnitary

NextAppend == \E operation \in Operations : AppendLogged(operation)

NextBuild ==
    \/ \E operation \in Operations : IAddOperation(operation)
    \/ \E other \in OtherCircuits : IAddCircuit(other)
    \/ IAddSelf
    \/ \E other \in OtherCircuits : AddCircuit(other)
    \/ \E other \in OtherCircuits : RAddCircuit(other)
    \/ \E index \in 0..MaxLen, operation \in Operations : Insert(index, operation)

NextSequence ==
    \/ \E key \in 0..MaxLen : GetItem(key)
    \/ \E key \in 0..MaxLen : DelItem(key)
    \/ \E start \in 0..MaxLen, stop \in 0..MaxLen : DelSlice(start, stop)

Next ==
    \/ NextBuild
    \/ NextSequence

NextSetItem ==
    \/ Next
    \/ \E key \in 0..MaxLen, val \in Operations : SetItem(key, val)

\* only appends of single operations
SpecAppend == Init /\ [][NextAppend]_vars

\* appends, inserts and concatenations
SpecBuild == Init /\ [][NextBuild]_vars

\* appends, inserts, concatenations, item access and deletions
Spec == Init /\ [][Next]_vars

\* every call on the circuit, item assignment included
SpecSetItem == Init /\ [][NextSetItem]_vars

\* the invocations of a measurement
InitMeasures == InitMeasure /\ InitGate /\ InitHeap /\ InitOwners /\ InitDoUnitary

SpecMeasure == InitMeasures /\ [][NextMeasure]_vars

\* the calls on a gate
SpecGates == InitGates /\ [][NextGates]_vars

\* the calls on a circuit of objects and on its deep copy
SpecObjects == InitObjects /\ [][NextObjects]_vars

\* the circuits an operation or a sequence is inserted into
InsertPrograms ==
    { <<>>,
      <<Hadamard(0), MeasureQubit(0, "ro", 0)>>,
      <<Definition("ro", "bit", 1, FALSE, FALSE), Hadamard(0), MeasureQubit(0, "ro", 0)>>,
      <<Definition("ro", "bit", 1, FALSE, FALSE),
        Definition("test", "float", 3, FALSE, FALSE), MeasureQubit(0, "ro", 0)>> }

\* a circuit built by appends
InitInsert ==
    /\ \E list \in InsertPrograms :
          /\ definitions = FromList(list).definitions
          /\ operations = FromList(list).operations
    /\ appended = <<>>
    /\ last = NoCall
    /\ InitMeasurement
    /\ InitGate
    /\ InitHeap
    /\ InitOwners
    /\ InitDoUnitary

NextInsert ==
    \/ \E index \in 0..MaxInsertLen, operation \in Operations :
          InsertOperation(index, operation)
    \/ \E index \in 0..MaxInsertLen, other \in Sequences : InsertSequence(index, other)

\* inserts of operations and of sequences into circuits built by appends
SpecInsert == InitInsert /\ [][NextInsert]_vars

NextItems ==
    \/ \E index \in 0..MaxInsertLen, operation \in Operations :
          InsertOperation(index, operation)
    \/ \E key \in (-MaxInsertLen)..MaxInsertLen : GetItem(key)

\* item reads with keys counted from either end
SpecItems == InitInsert /\ [][NextItems]_vars

\* the calls on two circuits and on their sum
SpecOwners == InitOwned /\ [][NextOwners]_vars

\* the calls of a DoUnitary and the invocations of its measurement
SpecDoUnitary == InitDoUnitaries /\ [][NextDoUnitary]_vars

(***************************************************************************)
(* Measurements with empty parts and with inconsistent shapes.             *)
(***************************************************************************)
OneRegisterMasks == "ro" :> ((0 :> <<>>) @@ (1 :> <<0, 1>>))

\* measurements whose circuit list or transform matrix is empty
EmptyMeasurements ==
    { \* the defaults of everything but the backend
      BasisRotationMeasurement(BackendBaseClass(2),
          BRMeasurementInput(<<>>, Matrix(0, 0, <<>>), 0, 0, <<>>, FALSE),
          <<>>, Circuit, None, None),
      \* no circuit, masks that name a register
      BasisRotationMeasurement(BackendBaseClass(2),
          BRMeasurementInput(OneRegisterMasks, Identity2, 2, 2, <<"a", "b">>, FALSE),
          <<>>, Circuit, None, None),
      \* a matrix without rows and no names
      BasisRotationMeasurement(BackendBaseClass(2),
          BRMeasurementInput(OneRegisterMasks, Matrix(0, 2, <<>>), 2, 2, <<>>, FALSE),
          <<MeasureCircuit("ro")>>, Circuit, None, None) }

\* measurements whose input has inconsistent shapes
InconsistentMeasurements ==
    { \* a mask index that is no Pauli product
      BasisRotationMeasurement(BackendBaseClass(2),
          BRMeasurementInput("ro" :> ((0 :> <<>>) @@ (2 :> <<0, 1>>)),
              Identity2, 2, 2, <<"a", "b">>, FALSE),
          <<MeasureCircuit("ro")>>, Circuit, None, None),
      \* a mask qubit that the register does not have
      BasisRotationMeasurement(BackendBaseClass(2),
          BRMeasurementInput("ro" :> ((0 :> <<>>) @@ (1 :> <<0, 2>>)),
              Identity2, 2, 2, <<"a", "b">>, FALSE),
          <<MeasureCircuit("ro")>>, Circuit, None, None),
      \* a matrix with fewer columns than Pauli products
      BasisRotationMeasurement(BackendBaseClass(2),
          BRMeasurementInput(OneRegisterMasks, Matrix(2, 1, <<<<One>>, <<Imag>>>>),
              2, 2, <<"a", "b">>, FALSE),
          <<MeasureCircuit("ro")>>, Circuit, None, None),
      \* the default matrix with two Pauli products
      BasisRotationMeasurement(BackendBaseClass(2),
          BRMeasurementInput(OneRegisterMasks, Matrix(0, 0, <<>>), 2, 2, <<>>, FALSE),
          <<MeasureCircuit("ro")>>, Circuit, None, None),
      \* fewer names than rows of the matrix
      BasisRotationMeasurement(BackendBaseClass(2),
          BRMeasurementInput(OneRegisterMasks, Identity2, 2, 2, <<"a">>, FALSE),
          <<MeasureCircuit("ro")>>, Circuit, None, None),
      \* more names than rows of the matrix
      BasisRotationMeasurement(BackendBaseClass(2),
          BRMeasurementInput(OneRegisterMasks, Identity2, 2, 2, <<"a", "b", "c">>, FALSE),
          <<MeasureCircuit("ro")>>, Circuit, None, None) }

InitShapes ==
    /\ InitCircuit
    /\ InitGate
    /\ InitHeap
    /\ InitOwners
    /\ InitDoUnitary
    /\ \E m \in Measurements \cup EmptyMeasurements \cup InconsistentMeasurements :
          Constructed(m)

\* the invocations of a measurement, empty and inconsistent inputs included
SpecShapes == InitShapes /\ [][NextMeasure]_vars

(***************************************************************************)
(* Claims about the circuit container.                                     *)
(***************************************************************************)
NotDefinition(op) == ~IsDefinition(op)

\* the indices of a list whose element equals no earlier element
FirstSeenIndices(list) ==
    { i \in 1..Len(list) : \A j \in 1..(i - 1) : ~DefinitionEq(list[j], list[i]) }

\* the elements of a list at a set of indices, in the list's order
Pick(list, S) ==
    [k \in 1..Cardinality(S) |->
        list[CHOOSE i \in S : Cardinality({ j \in S : j <= i }) = k]]

CountDefinitions(c) ==
    Cardinality({ i \in 1..Len(__iter__(c)) : IsDefinition(__iter__(c)[i]) })

\* C1: a circuit built by interleaved appends holds a Definition at every
\* index below the number of its definitions, and iteration and to_hqs_lang
\* yield the definitions in first-seen order after deduplication, then the
\* other operations in append order.
C1_DefinitionsFirst ==
    LET defs == SelectSeq(appended, IsDefinition)
        expected == Pick(defs, FirstSeenIndices(defs))
                    \o SelectSeq(appended, NotDefinition)
    IN  /\ \A k \in 0..(CountDefinitions(self) - 1) :
              /\ ~__getitem__(self, k).raised
              /\ IsDefinition(__getitem__(self, k).value)
        /\ __iter__(self) = expected
        /\ to_hqs_lang(self)
              = [i \in 1..Len(expected) |-> Operation_to_hqs_lang(expected[i])]

\* the spec's end-to-end example 1, with a duplicate definition appended
C1_Witness ==
    /\ appended = << Definition("ro", "bit", 1, FALSE, FALSE), Hadamard(0),
                     Definition("test", "float", 3, FALSE, FALSE),
                     MeasureQubit(0, "ro", 0) >>
    /\ to_hqs_lang(self) = << "Definition ro BIT[1]", "Definition test REAL[3]",
                              "Hadamard 0", "MeasureQubit 0 ro[0]" >>

ContainedDefinitions(c) == SelectSeq(__iter__(c), IsDefinition)

\* C2 as stated: after appends, inserts and concatenations a circuit holds at
\* most one Definition per register name.
C2_OneDefinitionPerName ==
    LET defs == ContainedDefinitions(self)
    IN  \A i, j \in 1..Len(defs) : defs[i].name = defs[j].name => i = j

\* C2 as amended: after appends, inserts and concatenations no two Definitions
\* of a circuit are equal by value (same name, vartype and length).
C2_NoEqualDefinitions ==
    LET defs == ContainedDefinitions(self)
    IN  \A i, j \in 1..Len(defs) : DefinitionEq(defs[i], defs[j]) => i = j

\* a Definition equal to a contained one was offered and dropped, next to a
\* contained Definition of the same name and another type
C2_Witness ==
    /\ last.call \in {"iadd", "insert"}
    /\ IsDefinition(last.val)
    /\ In(last.val, last.pre.definitions)
    /\ self = last.pre
    /\ \E i, j \in 1..Len(definitions) :
          i # j /\ definitions[i].name = definitions[j].name

\* C3: for 0 <= k < len(circuit), circuit[k] is definitions[k] below
\* len(definitions) and operations[k - len(definitions)] from there on, it is
\* the k-th element of the iteration, and len(circuit) counts both lists.
C3_IndexMapping ==
    /\ \A k \in 0..(__len__(self) - 1) :
          /\ ~__getitem__(self, k).raised
          /\ __getitem__(self, k).value
                = IF k < Len(definitions) THEN definitions[k + 1]
                  ELSE operations[k - Len(definitions) + 1]
          /\ __getitem__(self, k).value = __iter__(self)[k + 1]
    /\ __len__(self) = Len(definitions) + Len(operations)
    /\ __len__(self) = Len(__iter__(self))
    /\ (last.call = "getitem" /\ last.key < __len__(self)) =>
          /\ ~last.raised
          /\ last.ret = __iter__(self)[last.key + 1]

\* circuit[2] was read behind one definition
C3_Witness ==
    /\ last.call = "getitem"
    /\ Len(definitions) = 1
    /\ last.key = 2
    /\ ~last.raised
    /\ last.ret = operations[2]

\* C4: insert(index, op) appends a Definition to the definitions unless an
\* equal one is contained (then nothing changes), whatever the index; any
\* other op with len(definitions) <= index <= len(circuit) ends up at
\* circuit[index], the elements contained before keeping their order.
C4_InsertRouting ==
    last.call = "insert" =>
        IF IsDefinition(last.val)
        THEN IF In(last.val, last.pre.definitions)
             THEN self = last.pre
             ELSE /\ definitions = Append(last.pre.definitions, last.val)
                  /\ operations = last.pre.operations
        ELSE (Len(last.pre.definitions) <= last.key /\ last.key <= __len__(last.pre)) =>
                /\ ~__getitem__(self, last.key).raised
                /\ __getitem__(self, last.key).value = last.val
                /\ definitions = last.pre.definitions
                /\ ListDel(__iter__(self), last.key) = __iter__(last.pre)

\* a gate was inserted behind a definition and before another operation
C4_Witness ==
    /\ last.call = "insert"
    /\ ~IsDefinition(last.val)
    /\ Len(last.pre.definitions) >= 1
    /\ Len(last.pre.definitions) <= last.key
    /\ last.key < __len__(last.pre)
    /\ operations[last.key - Len(definitions) + 1] = last.val
    /\ operations[last.key - Len(definitions) + 2] # last.val

\* C5 as stated: del circuit[key] removes exactly the positions key addresses,
\* as numbered before the call, lowers len(circuit) by their number and keeps
\* the other elements in order.
C5_DeleteAddressed ==
    /\ (last.call = "delitem" /\ last.key < __len__(last.pre)) =>
          /\ ~last.raised
          /\ __iter__(self) = ListDel(__iter__(last.pre), last.key)
          /\ __len__(self) = __len__(last.pre) - 1
    /\ (last.call = "delslice" /\ last.key <= last.stop
          /\ last.stop <= __len__(last.pre)) =>
          /\ ~last.raised
          /\ __iter__(self) = SubSeq(__iter__(last.pre), 1, last.key)
                \o SubSeq(__iter__(last.pre), last.stop + 1, __len__(last.pre))
          /\ __len__(self) = __len__(last.pre) - (last.stop - last.key)

(***************************************************************************)
(* Claims about the invocation of a measurement.                           *)
(***************************************************************************)
\* the registers, masks and names of the measurement input
Masks == measurement_input.pauli_product_qubit_masks

Indices == 0..(measurement_input.number_pauli_products - 1)

\* the invocation ended with a reconstructed result
Completed == pc = "done" /\ result.kind = "Series" /\ backend # None

\* (-1)^(number of ones among the bits of the qubits in L), 1 for an empty L
Parity(shot, L, complemented) ==
    LET bit(i) == IF complemented THEN 1 - shot[L[i] + 1] ELSE shot[L[i] + 1]
    IN  IF Cardinality({ i \in 1..Len(L) : bit(i) = 1 }) % 2 = 0 THEN 1 ELSE -1

\* the mean over the shots of a register of the parity at one index of its mask
ParityMean(name, index, complemented) ==
    IF index \in DOMAIN Masks[name]
    THEN Mean([s \in 1..Len(output_register_dict[name]) |->
                  Parity(output_register_dict[name][s], Masks[name][index], complemented)])
    ELSE Real(0)

\* C6: within one invocation with a backend the dispatches are a prefix of the
\* circuit list in list order: dispatch i submits constant_circuit +
\* circuit_list[i], no circuit is dispatched twice, and a dispatch that raises
\* is the last one of the invocation, which ends with that very exception.
C6_DispatchPrefix ==
    /\ Len(dispatched) <= Len(circuit_list)
    /\ \A i \in 1..Len(dispatched) :
          /\ dispatched[i].circuit = __add__(constant_circuit, circuit_list[i])
          /\ dispatched[i].outcome \in BackendErrors
                => /\ i = Len(dispatched)
                   /\ pc = "failed"
                   /\ result = Raises(dispatched[i].outcome)

C6_Witness ==
    /\ pc = "failed"
    /\ Len(circuit_list) = 3
    /\ constant_circuit = FromList(<<Hadamard(0)>>)
    /\ Len(dispatched) = 2
    /\ dispatched[1].outcome = "registers"
    /\ dispatched[2].circuit.operations
          = <<Hadamard(0), MeasureQubit(0, "test2", 0), MeasureQubit(1, "test2", 1)>>
    /\ dispatched[2].outcome = "TimeoutError"
    /\ result = Raises("TimeoutError")

\* C7 as stated: once a dispatch has returned None no further circuit of the
\* list is dispatched, and the invocation ends normally with None.
C7_ShortCircuit ==
    none_at # 0 =>
        /\ Len(dispatched) = none_at
        /\ pc = "done" => result = ReturnsNone

\* C7: once a dispatch has returned None the invocation goes on dispatching;
\* it ends normally only after every circuit of the list has been dispatched,
\* then with None and without reconstruction, and it ends otherwise only by
\* an exception its dispatch loop raised.
C7_NoneAfterEveryDispatch ==
    none_at # 0 =>
        /\ none_at <= Len(dispatched)
        /\ pc = "dispatching" => Len(dispatched) < Len(circuit_list)
        /\ pc = "done" => /\ Len(dispatched) = Len(circuit_list)
                          /\ result = ReturnsNone
                          /\ pauli = NoPauli
        /\ pc = "failed" => \/ dispatched[Len(dispatched)].outcome \in BackendErrors
                            \/ ResumeListExhausted
        /\ pc # "idle"

C7_Witness ==
    /\ pc = "done"
    /\ none_at = 1
    /\ Len(dispatched) = 3
    /\ dispatched[2].outcome = "registers"
    /\ result = ReturnsNone

\* C8: for every register of the masks and every index of its mask the
\* reconstructed value is the mean over the shots of the parity of the bits
\* of the contributing qubits (1 for no qubits), the bits being complemented
\* exactly for the registers whose name has the suffix "_flipped"; a register
\* without the suffix whose bits are all zero yields 1 at every index.
C8_ParityMean ==
    Completed =>
        \A name \in DOMAIN Masks : \A index \in DOMAIN Masks[name] :
            /\ pauli.pauli_product_dict[name][index]
                  = ParityMean(name, index, endswith(name, "_flipped"))
            /\ ( /\ ~endswith(name, "_flipped")
                 /\ \A s \in 1..Len(output_register_dict[name]) :
                        \A q \in 1..Len(output_register_dict[name][s]) :
                            output_register_dict[name][s][q] = 0 )
                  => pauli.pauli_product_dict[name][index] = Real(1)

\* the correction factor C9 names: the product of the fidelities of the
\* contributing qubits, every fidelity being 1 without a device
CorrectionFactor(name, index) ==
    LET L == IF index \in DOMAIN Masks[name] THEN Masks[name][index] ELSE <<>>
        fidelity(q) ==
            IF device = None THEN Real(1)
            ELSE FracDiv(FracSub(FracSub(Real(2), device.measurement_error[q].prob_0_as_1),
                                 device.measurement_error[q].prob_1_as_0), Real(2))
        product[i \in 0..Len(L)] ==
            IF i = 0 THEN Real(1) ELSE FracMul(product[i - 1], fidelity(L[i]))
    IN  product[Len(L)]

\* C9: with the readout-error mitigation enabled the corrected value of every
\* register without the suffix "_flipped" is, at every index,
\* ((plain + flipped) / 2) / correction_factor, which without a device is the
\* mean of the plain and the flipped value.
C9_Mitigation ==
    (Completed /\ measurement_input.use_flipped_measurement) =>
        \A name \in DOMAIN Masks : ~endswith(name, "_flipped") =>
            \A index \in Indices :
                /\ pauli.corrected[name][index]
                      = FracDiv(FracDiv(FracAdd(ParityMean(name, index, FALSE),
                                                ParityMean(name \o "_flipped", index, TRUE)),
                                        Real(2)),
                                CorrectionFactor(name, index))
                /\ device = None
                      => pauli.corrected[name][index]
                            = FracDiv(FracAdd(ParityMean(name, index, FALSE),
                                              ParityMean(name \o "_flipped", index, TRUE)),
                                      Real(2))

\* the result is the transform of the sum of the vectors of the given registers
\* and has the entry exp_val_<name> of every configured name, in their order
ResultIsTransformOfSum(names) ==
    LET transformed ==
            matmul(measurement_input.pp_to_exp_val_matrix,
                   [index \in Indices |-> SumVectors(names, pauli.corrected, index)])
    IN  \A i \in 1..Len(measurement_input.measured_exp_vals) :
            /\ ("exp_val_" \o measurement_input.measured_exp_vals[i]) \in DOMAIN result.series
            /\ result.series["exp_val_" \o measurement_input.measured_exp_vals[i]]
                  = transformed[i]

EndedOnItsOwn ==
    /\ pc \in {"done", "failed"}
    /\ backend # None
    /\ ~ResumeListExhausted
    /\ \A i \in 1..Len(dispatched) : dispatched[i].outcome = "registers"

\* C11: a measurement whose transform matrix has no entries or whose circuit
\* list is empty returns an empty result when it is invoked and raises no
\* error.
C11_EmptyIsNoError ==
    ( /\ EndedOnItsOwn
      /\ \/ circuit_list = <<>>
         \/ measurement_input.pp_to_exp_val_matrix.a = <<>> )
        => result = Series(<<>>)

\* the shapes of the measurement input do not fit each other
Inconsistent ==
    \/ \E name \in DOMAIN Masks : \E index \in DOMAIN Masks[name] :
           \/ index \notin Indices
           \/ \E i \in 1..Len(Masks[name][index]) :
                  Masks[name][index][i] \notin 0..(measurement_input.number_qubits - 1)
    \/ measurement_input.pp_to_exp_val_matrix.shape[2]
          # measurement_input.number_pauli_products
    \/ Len(measurement_input.measured_exp_vals)
          # measurement_input.pp_to_exp_val_matrix.shape[1]

\* C12: no invocation of a measurement whose input has inconsistent shapes
\* returns a result: it ends with an error.
C12_InconsistentRaises ==
    (Inconsistent /\ pc \in {"done", "failed"} /\ backend # None)
        => result.kind # "Series"


(***************************************************************************)
(* Claims about the gate operations.                                       *)
(***************************************************************************)
\* the last call returned a gate
ReturnedGate == gate_last.call \in {"pow", "mul"} /\ gate_last.raised = ""

\* is_parametrized says whether a parameter of the gate is symbolic
FlagIsAnySymbolic(g) == is_parametrized(g) <=> AnySymbolic(g._ordered_parameter_dict)

\* C13: after every sequence of construction, substitute_parameters, **, *
\* and *=, is_parametrized of a gate is true exactly if one of its parameters
\* is a symbolic expression; this holds of the gate the calls are made on
\* and of every gate a call returns.
C13_FlagIsAnySymbolic ==
    /\ FlagIsAnySymbolic(gate)
    /\ ReturnedGate => FlagIsAnySymbolic(gate_last.value)

RECURSIVE VariablesOf(_)
\* the names of the variables of an expression
VariablesOf(expression) ==
    IF expression.op = "literal" THEN {}
    ELSE IF expression.op = "variable" THEN {expression.name}
    ELSE IF "arg" \in DOMAIN expression THEN VariablesOf(expression.arg)
    ELSE VariablesOf(expression.l) \cup VariablesOf(expression.r)

\* the bindings resolve the operation fully: they bind every variable of
\* every symbolic parameter
Resolves(substitution_dict, op) ==
    IsGate(op) =>
        \A key \in DOMAIN op._ordered_parameter_dict :
            VariablesOf(op._ordered_parameter_dict[key].value) \subseteq DOMAIN substitution_dict

ResolvesAll(substitution_dict, objects, c) ==
    \A i \in 1..Len(c.operations) :
        Resolves(substitution_dict, value(objects, c.operations[i]))

\* no field of the operation is symbolic
Literally(op) == IsGate(op) => ~AnySymbolic(op._ordered_parameter_dict)

\* the operations of the heap
OperationsOf(objects) ==
    { value(objects, Ref(id)) : id \in { i \in 1..Len(objects) : objects[i].tag # "dict" } }

OperationTwiceIsOnce(op, substitution_dict) ==
    LET once == Operation_substitute_parameters(op, substitution_dict)
        twice == Operation_substitute_parameters(once.self, substitution_dict)
    IN  /\ once.raised = ""
        /\ twice.raised = ""
        /\ twice.self = once.self

CircuitTwiceIsOnce(objects, c, substitution_dict) ==
    LET once == Circuit_substitute_parameters(objects, c, substitution_dict)
        twice == Circuit_substitute_parameters(once.heap, once.circuit, substitution_dict)
    IN  /\ once.raised = ""
        /\ twice = once

\* C14: substitute_parameters(b) applied twice with the same bindings b that
\* resolve every symbolic parameter leaves an operation and a circuit as the
\* first application left them, and applied to an operation without a
\* symbolic field it changes nothing; a call of
\* Circuit.substitute_parameters(b) that has just been made with such
\* bindings changes nothing when it is made again.
C14_SubstituteIdempotent ==
    /\ \A substitution_dict \in Substitutions :
          /\ \A op \in OperationsOf(heap) :
                /\ Resolves(substitution_dict, op) => OperationTwiceIsOnce(op, substitution_dict)
                /\ Literally(op) =>
                      Operation_substitute_parameters(op, substitution_dict) = Outcome("", None, op)
          /\ \A t \in Circuits :
                Target(t) # None /\ ResolvesAll(substitution_dict, heap, Target(t))
                    => CircuitTwiceIsOnce(heap, Target(t), substitution_dict)
    /\ heap_last.call = "substitute_parameters" /\ heap_last.raised = ""
          => Circuit_substitute_parameters(heap, Target(heap_last.target), heap_last.arg)
                 = Left("", heap, Target(heap_last.target))

\* a circuit with a symbolic parameter has been substituted with bindings
\* that resolve it, and an operation of it was literal before
C14_Witness ==
    /\ heap_last.call = "substitute_parameters"
    /\ heap_last.raised = ""
    /\ \E op \in Values(heap_last[heap_last.target].operations) : ~Literally(op)
    /\ \E op \in Values(heap_last[heap_last.target].operations) : IsGate(op) /\ Literally(op)
    /\ \A op \in OperationsOf(heap) : Literally(op)

\* the last call raised the exception and left the gate and the operand as
\* they were
RaisedUnchanged(exception) ==
    /\ gate_last.raised = exception
    /\ gate_last.value = None
    /\ gate = gate_last.pre

\* the last call multiplied two single-qubit gates on different qubits
DifferentQubits ==
    /\ gate_last.call \in {"mul", "imul"}
    /\ GateClasses[gate_last.pre.tag].single
    /\ GateClasses[gate_last.arg.tag].single
    /\ involved_qubits(gate_last.pre) # involved_qubits(gate_last.arg)

\* the last call exponentiated a gate without rotation-strength parameters
NotExponentiable ==
    /\ gate_last.call = "pow"
    /\ GateClasses[gate_last.pre.tag]._rotation_strength_parameters = None

\* the last call asked for the matrix of a gate whose is_parametrized is true
MatrixOfParametrized ==
    /\ gate_last.call = "unitary_matrix"
    /\ is_parametrized(gate_last.pre)

\* C15: a product (* or *=) of two single-qubit gates on different qubits
\* raises ValueError, the power of a gate that declares no rotation-strength
\* parameters raises AttributeError and unitary_matrix of a gate whose
\* is_parametrized is true raises ValueError, each at once: no value is
\* returned and the gate and the operand are as before the call.
C15_DomainErrors ==
    /\ DifferentQubits => RaisedUnchanged("ValueError") /\ operand = gate_last.arg
    /\ NotExponentiable => RaisedUnchanged("AttributeError")
    /\ MatrixOfParametrized => RaisedUnchanged("ValueError")

\* an in-place product of a SingleQubitGate with a gate on another qubit has
\* raised
C15_Witness ==
    /\ DifferentQubits
    /\ gate_last.call = "imul"
    /\ gate_last.pre.tag = "SingleQubitGate"
    /\ gate_last.raised = "ValueError"

\* the last call was a product that returned
Multiplied == gate_last.call \in {"mul", "imul"} /\ gate_last.raised = ""

\* the product gate of the last call: the value of A * B, the gate after A *= B
Product == IF gate_last.call = "mul" THEN gate_last.value ELSE gate

\* the number a parameter stands for under bindings of its variables
Evaluated(substitution_dict, a) ==
    IF a.is_float THEN FloatValue(a) ELSE parse_string(substitution_dict, a.value).value

\* alpha and beta of a single-qubit gate as complex numbers, and its phase
AlphaOf(substitution_dict, g) ==
    Complex(Evaluated(substitution_dict, alpha_r(g)), Evaluated(substitution_dict, alpha_i(g)))

BetaOf(substitution_dict, g) ==
    Complex(Evaluated(substitution_dict, beta_r(g)), Evaluated(substitution_dict, beta_i(g)))

PhaseOf(substitution_dict, g) == Evaluated(substitution_dict, global_phase(g))

ComplexSub(a, b) == ComplexAdd(a, ComplexNeg(b))

\* alpha = alphaA*alphaB - betaB*conj(betaA), beta = betaA*alphaB +
\* betaB*conj(alphaA), global phase = phaseA + phaseB
ProductFormula(substitution_dict, A, B, P) ==
    /\ AlphaOf(substitution_dict, P) =
          ComplexSub(ComplexMul(AlphaOf(substitution_dict, A), AlphaOf(substitution_dict, B)),
                     ComplexMul(BetaOf(substitution_dict, B),
                                ComplexConj(BetaOf(substitution_dict, A))))
    /\ BetaOf(substitution_dict, P) =
          ComplexAdd(ComplexMul(BetaOf(substitution_dict, A), AlphaOf(substitution_dict, B)),
                     ComplexMul(BetaOf(substitution_dict, B),
                                ComplexConj(AlphaOf(substitution_dict, A))))
    /\ PhaseOf(substitution_dict, P) =
          FracAdd(PhaseOf(substitution_dict, A), PhaseOf(substitution_dict, B))

\* P.unitary_matrix = A.unitary_matrix @ B.unitary_matrix
ProductMatrix(A, B, P) ==
    /\ unitary_matrix(A).raised = ""
    /\ unitary_matrix(B).raised = ""
    /\ unitary_matrix(P).raised = ""
    /\ unitary_matrix(P).value =
          Matrix(2, 2, MatMul(unitary_matrix(A).value.a, unitary_matrix(B).value.a))

\* C16: for single-qubit gates A and B on the same qubit, A * B and the
\* gate after A *= B are the SingleQubitGate on that qubit with
\* alpha = alphaA*alphaB - betaB*conj(betaA), beta = betaA*alphaB +
\* betaB*conj(alphaA) and global phase = phaseA + phaseB (for every value of
\* the symbols of A and B), and for literal A and B its unitary matrix is
\* A.unitary_matrix @ B.unitary_matrix.
C16_Product ==
    Multiplied =>
        /\ Product.tag = "SingleQubitGate"
        /\ Product._ordered_qubits_dict = gate_last.pre._ordered_qubits_dict
        /\ involved_qubits(Product) = involved_qubits(gate_last.pre)
        /\ \A substitution_dict \in Substitutions :
              Resolves(substitution_dict, gate_last.pre) /\ Resolves(substitution_dict, gate_last.arg)
                  => ProductFormula(substitution_dict, gate_last.pre, gate_last.arg, Product)
        /\ Literally(gate_last.pre) /\ Literally(gate_last.arg)
              => ProductMatrix(gate_last.pre, gate_last.arg, Product)

\* a gate with alpha = 3/5 and beta = 4i/5 has been multiplied in place with
\* PauliY
C16_Witness ==
    /\ Multiplied
    /\ gate_last.call = "imul"
    /\ gate_last.arg.tag = "PauliY"
    /\ gate_last.pre.tag = "SingleQubitGate"
    /\ Literally(gate_last.pre)
    /\ AlphaOf(<<>>, gate_last.pre) # CZero
    /\ BetaOf(<<>>, gate_last.pre) # CZero

\* the last call was a power that returned
Exponentiated == gate_last.call = "pow" /\ gate_last.raised = ""

\* the rotation-strength parameters of the class of a gate
RotationStrength(g) ==
    IF GateClasses[g.tag]._rotation_strength_parameters = None THEN {}
    ELSE Values(GateClasses[g.tag]._rotation_strength_parameters.items)

\* the bindings bind every variable of the parameter
ResolvesParameter(substitution_dict, a) ==
    VariablesOf(a.value) \subseteq DOMAIN substitution_dict

\* C17: G ** p of a gate G whose class declares rotation-strength
\* parameters returns a gate of the class of G in which each
\* rotation-strength parameter is p times its value in G (for every value of
\* the symbols), every other parameter and every qubit role is as in G, and
\* G is as before the call.
C17_Power ==
    /\ gate_last.call = "pow" /\ RotationStrength(gate_last.pre) # {}
          => gate_last.raised = ""
    /\ Exponentiated =>
          /\ gate = gate_last.pre
          /\ gate_last.value.tag = gate_last.pre.tag
          /\ gate_last.value._ordered_qubits_dict = gate_last.pre._ordered_qubits_dict
          /\ gate_last.value._involved_qubits = gate_last.pre._involved_qubits
          /\ DOMAIN gate_last.value._ordered_parameter_dict
                = DOMAIN gate_last.pre._ordered_parameter_dict
          /\ \A key \in DOMAIN gate_last.pre._ordered_parameter_dict :
                IF key \in RotationStrength(gate_last.pre)
                THEN \A substitution_dict \in Substitutions :
                        /\ ResolvesParameter(substitution_dict, gate_last.arg)
                        /\ ResolvesParameter(substitution_dict,
                                             gate_last.pre._ordered_parameter_dict[key])
                        => Evaluated(substitution_dict,
                                     gate_last.value._ordered_parameter_dict[key])
                             = FracMul(Evaluated(substitution_dict, gate_last.arg),
                                       Evaluated(substitution_dict,
                                                 gate_last.pre._ordered_parameter_dict[key]))
                ELSE gate_last.value._ordered_parameter_dict[key]
                         = gate_last.pre._ordered_parameter_dict[key]

\* a rotation about a spherical axis with theta = pi has been raised to the
\* power 2: theta is 2 pi and the axis is as before
C17_Witness ==
    /\ Exponentiated
    /\ gate_last.pre.tag = "RotateAroundSphericalAxis"
    /\ gate_last.arg = Float(Real(2))
    /\ gate_last.pre._ordered_parameter_dict.theta = Float(Real(1))
    /\ gate_last.value._ordered_parameter_dict.theta = Float(Real(2))
    /\ gate_last.value._ordered_parameter_dict.spherical_phi = Float(Frac(1, 2))

\* the qubits an operation acts on
QubitsOf(op) == IF IsGate(op) THEN Values(op._ordered_qubits_dict) ELSE {op.qubit}

\* the operation with the index q of every qubit role replaced by m[q]
Remapped(op, mapping_dict) ==
    IF IsGate(op)
    THEN [op EXCEPT
            !._ordered_qubits_dict =
                [key \in DOMAIN op._ordered_qubits_dict |->
                    mapping_dict[op._ordered_qubits_dict[key]]],
            !._involved_qubits =
                { mapping_dict[op._ordered_qubits_dict[key]] :
                    key \in DOMAIN op._ordered_qubits_dict }]
    ELSE [op EXCEPT !.qubit = mapping_dict[op.qubit]]

\* the last call was Circuit.remap_qubits(m) with m defined on every qubit
\* of the circuit
RemappedCircuit ==
    /\ heap_last.call = "remap_qubits"
    /\ \A op \in Values(heap_last[heap_last.target].operations) :
          QubitsOf(op) \subseteq DOMAIN heap_last.arg

\* C18: remap_qubits(m) on a gate, m defined on every qubit of the gate,
\* replaces the index q of every qubit role by m[q], leaves the parameters
\* and the flag as they are and sets involved_qubits to the set of the new
\* indices; after Circuit.remap_qubits(m) every operation of the circuit is
\* the operation it was with q replaced by m[q], and the definitions are as
\* before.
C18_Remap ==
    /\ \A op \in OperationsOf(heap), mapping_dict \in Mappings :
          QubitsOf(op) \subseteq DOMAIN mapping_dict
              => Operation_remap_qubits(op, mapping_dict)
                     = Outcome("", None, Remapped(op, mapping_dict))
    /\ RemappedCircuit =>
          /\ heap_last.raised = ""
          /\ contents(heap, Target(heap_last.target)).definitions
                = heap_last[heap_last.target].definitions
          /\ Len(Target(heap_last.target).operations)
                = Len(heap_last[heap_last.target].operations)
          /\ \A i \in 1..Len(Target(heap_last.target).operations) :
                contents(heap, Target(heap_last.target)).operations[i]
                    = Remapped(heap_last[heap_last.target].operations[i], heap_last.arg)

ActedAfterCopy ==
    /\ heap_last.call \notin {"none", "deepcopy"}
    /\ heap_last.duplicate # None

InPlaceChange == own_last.call \in {"remap_qubits", "substitute_parameters"}

(***************************************************************************)
(* C21: a circuit exclusively owns its operations: after r = a + b or      *)
(* a += b, an in-place change made through one of the circuits             *)
(* (remap_qubits, substitute_parameters) is not visible through any of the *)
(* other circuits, whose operations read as they did before the call.      *)
(***************************************************************************)
C21_ExclusiveOwnership ==
    InPlaceChange =>
        /\ own_last.target # "a" => Snapshot(circuit_a) = own_last.a
        /\ own_last.target # "b" => Snapshot(circuit_b) = own_last.b
        /\ own_last.target # "r" => Snapshot(circuit_r) = own_last.r

\* the last call, an invocation of the measurement or a call of the
\* DoUnitary, has raised
CallRaised ==
    \/ do_last.call = "DoUnitary" /\ do_pc = "raised"
    \/ do_last.call = "measurement" /\ pc = "failed"

(***************************************************************************)
(* C22: errors are local to one call: when an invocation of the            *)
(* measurement or a call of the DoUnitary has raised, the constant circuit *)
(* and the circuit list of the measurement equal what they were before the *)
(* call.                                                                   *)
(***************************************************************************)
C22_ErrorsAreLocal ==
    CallRaised =>
        /\ constant_circuit = do_last.constant_circuit
        /\ circuit_list = do_last.circuit_list

\* the free parameters that the parameters of a call give a value to: the
\* keys of a dictionary, as many names as a list has entries, none for None
Assigned(names, parameters) ==
    IF parameters = None THEN {}
    ELSE IF parameters.tag = "dict" THEN DOMAIN parameters.items
    ELSE { names[i] : i \in 1..Min(Len(names), Len(parameters.items)) }

\* the last call was a call of the DoUnitary that left a free parameter
\* without a value
LeftUnassigned ==
    /\ do_last.call = "DoUnitary"
    /\ \E i \in 1..Len(free_parameters) :
          free_parameters[i] \notin Assigned(free_parameters, do_last.parameters)

(***************************************************************************)
(* C23: a call of the DoUnitary whose parameters (a dictionary, a list or  *)
(* nothing) leave a declared free parameter without a value raises         *)
(* ValueError before any dispatch to the backend and without a change of   *)
(* the constant circuit.                                                   *)
(***************************************************************************)
C23_UnassignedRaises ==
    LeftUnassigned =>
        /\ do_pc = "raised"
        /\ do_result = Raises("ValueError")
        /\ calls = do_last.calls
        /\ constant_circuit = do_last.constant_circuit

\* the most recent invocation has dispatched every circuit of the list
LoopCompleted ==
    /\ calls > 0
    /\ pc # "dispatching"
    /\ Len(dispatched) = Len(circuit_list)
    /\ \A i \in 1..Len(dispatched) : dispatched[i].outcome \in {"registers", "None"}

\* what the backend left as its resume information for the circuits of the
\* most recent invocation
ResumeInformation ==
    [i \in 1..Len(circuit_list) |-> [call |-> calls, circuit |-> i - 1]]

(***************************************************************************)
(* C24: after any number of invocations of a measurement object the resume *)
(* information it has recorded holds exactly one entry per circuit of the  *)
(* most recent invocation, entry i being the resume information of the     *)
(* backend for circuit_list[i], so that the list can be handed to a later  *)
(* call as its resume list.                                                *)
(***************************************************************************)
C24_ResumeInformationPerCircuit == LoopCompleted => resume_info = ResumeInformation

\* the definitions are Definitions and the operations are not
Typed ==
    /\ \A i \in 1..Len(definitions) : IsDefinition(definitions[i])
    /\ \A i \in 1..Len(operations) : ~IsDefinition(operations[i])

(***************************************************************************)
(* C25: every append, insert, concatenation, deletion and item assignment  *)
(* that returns without raising keeps every element of the definitions a   *)
(* Definition and every element of the operations something else, so that  *)
(* this holds after any sequence of such calls.                            *)
(***************************************************************************)
C25_Typed == [][(Typed /\ ~last'.raised) => Typed']_vars

\* the circuit the last call was made on, as it read before the call
OwnerBefore ==
    IF own_last.target = "a" THEN own_last.a
    ELSE IF own_last.target = "b" THEN own_last.b ELSE own_last.r

\* every gate of the circuit involves the qubits of its roles
InvolvedQubitsOfRoles(c) ==
    \A i \in 1..Len(c.operations) :
        IsGate(c.operations[i]) =>
            c.operations[i]._involved_qubits = Values(c.operations[i]._ordered_qubits_dict)

(***************************************************************************)
(* C26: when Circuit.remap_qubits(m) has raised, because an operation of   *)
(* the circuit does not support the remapping or because m has no entry    *)
(* for a qubit of an operation, the circuit is exactly as it was before    *)
(* the call: no operation was remapped and the involved qubits of every    *)
(* gate are the qubits of its roles.                                       *)
(***************************************************************************)
C26_FailedRemapLeavesCircuit ==
    (own_last.call = "remap_qubits" /\ own_last.raised # "") =>
        /\ Snapshot(Owner(own_last.target)) = OwnerBefore
        /\ InvolvedQubitsOfRoles(Snapshot(Owner(own_last.target)))

\* every field of two Definitions is equal
AllFieldsEqual(a, b) ==
    /\ a.name = b.name
    /\ a.vartype = b.vartype
    /\ a.length = b.length
    /\ a.is_input = b.is_input
    /\ a.is_output = b.is_output

(***************************************************************************)
(* C27: two Definitions are equal if and only if all their fields are      *)
(* equal: name, type, length, is_input and is_output. Compared are the     *)
(* definitions of the circuit with the Definitions that are added to it.   *)
(***************************************************************************)
C27_DefinitionEquality ==
    \A i \in 1..Len(definitions) : \A d \in Definitions :
        DefinitionEq(definitions[i], d) <=> AllFieldsEqual(definitions[i], d)

RECURSIVE WithoutDefinitions(_)
\* the elements of a list that are no Definitions, in the order of the list
WithoutDefinitions(list) ==
    IF list = <<>> THEN <<>>
    ELSE IF IsDefinition(Head(list)) THEN WithoutDefinitions(Tail(list))
    ELSE <<Head(list)>> \o WithoutDefinitions(Tail(list))

\* the list is the list before with the block put in at one position
Spliced(list, before, block) ==
    \E p \in 0..Len(before) :
        list = SubSeq(before, 1, p) \o block \o SubSeq(before, p + 1, Len(before))

(***************************************************************************)
(* C28: circuit.insert(index, seq) with seq a sequence of operations       *)
(* leaves the elements of seq that are no Definitions adjacent to one      *)
(* another in the operations and in their order in seq, whatever           *)
(* Definitions seq holds: the operations are the operations from before    *)
(* the call with these elements put in as one block.                       *)
(***************************************************************************)
C28_SequenceStaysTogether ==
    last.call = "insert_sequence" =>
        Spliced(operations, last.pre.operations, WithoutDefinitions(last.val.items))

(***************************************************************************)
(* C29: circuit.insert(index, op) with op no Definition and                *)
(* 0 <= index < len(definitions) makes op the first element of the         *)
(* operations: op is at the logical position len(definitions), directly    *)
(* after the last definition.                                              *)
(***************************************************************************)
C29_InsertAmongDefinitions ==
    (/\ last.call = "insert"
     /\ ~IsDefinition(last.val)
     /\ 0 <= last.key
     /\ last.key < Len(last.pre.definitions)) =>
        /\ definitions = last.pre.definitions
        /\ operations = <<last.val>> \o last.pre.operations
        /\ __getitem__(self, Len(definitions)).value = last.val

(***************************************************************************)
(* C30: for every circuit and every integer k with -len(circuit) <= k < 0, *)
(* circuit[k] returns the element that circuit[len(circuit) + k] returns,  *)
(* so that circuit[-1] is the last element of the iteration.               *)
(***************************************************************************)
C30_NegativeKeys ==
    (/\ last.call = "getitem"
     /\ -__len__(self) <= last.key
     /\ last.key < 0) =>
        /\ ~last.raised
        /\ last.ret = __getitem__(self, __len__(self) + last.key).value
        /\ last.key = -1 => last.ret = __iter__(self)[__len__(self)]

=============================================================================
